---- MODULE Spec2Model ----
(***************************************************************************)
(* A model of particles/distributions.py: the batched multivariate         *)
(* Gaussian MvNormal (construction, rvs, logpdf, ppf, linear_transform,    *)
(* posterior), the construction of Mixture, the univariate laws (Normal,   *)
(* FlatNormal, Dirac, Categorical, DiscreteUniform) with the combinators   *)
(* LinearD, MixMissing, IndepProd and IID, and StructDist.                 *)
(*                                                                         *)
(* Numbers.  float64 values are modelled by exact rationals <<n, d>>       *)
(* (d > 0, lowest terms).  A value that involves a square root (a Cholesky *)
(* factor, a draw built from it) is a "real": a finite set of terms        *)
(* [rad, coef] standing for the sum of coef * sqrt(rad); the rational q is *)
(* the real with the single term [rad |-> 1, coef |-> q].  A sum of        *)
(* logarithms of positive reals c * sqrt(r) is kept as [halfln |-> p],     *)
(* standing for (1/2) ln p, with p the product of the c^2 * r.             *)
(* Arrays are sequences (1-based; the code's index i is i + 1 here).       *)
(* The values of the univariate laws are "floats" [t, q, h, p]: NaN, minus *)
(* infinity, the level Phi(q), or the finite q - h * ln(sqrt(2 pi)) + ln p *)
(* with q, p rationals and h an integer.                                   *)
(***************************************************************************)
EXTENDS Integers, Sequences, FiniteSets, TLC

\* ------------------------------------------------------------ rationals

Abs(n) == IF n < 0 THEN -n ELSE n

RECURSIVE GCD(_, _)
GCD(a, b) == IF b = 0 THEN a ELSE GCD(b, a % b)

Rat(n, d) ==
  LET g == GCD(Abs(n), Abs(d))
      s == IF d < 0 THEN -1 ELSE 1
  IN  <<(s * n) \div g, (s * d) \div g>>

R(n) == <<n, 1>>
Zero == <<0, 1>>
One == <<1, 1>>

RAdd(a, b) == Rat(a[1] * b[2] + b[1] * a[2], a[2] * b[2])
RNeg(a) == <<-a[1], a[2]>>
RSub(a, b) == RAdd(a, RNeg(b))
RMul(a, b) == Rat(a[1] * b[1], a[2] * b[2])
\* b # Zero
RInv(b) == Rat(b[2], b[1])
RDiv(a, b) == RMul(a, RInv(b))
RPos(a) == a[1] > 0

\* ---------------------------------------------------------------- reals

RealOfRat(q) == IF q = Zero THEN {} ELSE {[rad |-> One, coef |-> q]}

CoefOf(A, r) == IF \E t \in A : t.rad = r
                THEN (CHOOSE t \in A : t.rad = r).coef
                ELSE Zero

RealAdd(A, B) ==
  LET rads == {t.rad : t \in A \cup B}
      all == {[rad |-> r, coef |-> RAdd(CoefOf(A, r), CoefOf(B, r))] : r \in rads}
  IN  {t \in all : t.coef # Zero}

RealScale(q, A) ==
  IF q = Zero THEN {} ELSE {[rad |-> t.rad, coef |-> RMul(q, t.coef)] : t \in A}

\* the largest r with r * r <= n
ISqrt(n) == CHOOSE r \in 0..n : r * r <= n /\ (r + 1) * (r + 1) > n
IsSquare(n) == ISqrt(n) * ISqrt(n) = n

\* sqrt(q) for q > 0: rational when q is a square of a rational
Sqrt(q) ==
  IF IsSquare(q[1]) /\ IsSquare(q[2])
  THEN RealOfRat(Rat(ISqrt(q[1]), ISqrt(q[2])))
  ELSE {[rad |-> q, coef |-> One]}

\* the square of a one-term real c * sqrt(r): the rational c^2 * r
SquareOf(A) == LET t == CHOOSE u \in A : TRUE
               IN  IF A = {} THEN Zero ELSE RMul(RMul(t.coef, t.coef), t.rad)

\* q / (c * sqrt(r)) = (q / (c * r)) * sqrt(r), for a one-term real
RatOverReal(q, A) ==
  LET t == CHOOSE u \in A : TRUE
  IN  IF q = Zero THEN {}
      ELSE {[rad |-> t.rad, coef |-> RDiv(q, RMul(t.coef, t.rad))]}

\* --------------------------------------------------- vectors, matrices

RECURSIVE SumSeq(_)
SumSeq(s) == IF s = <<>> THEN Zero ELSE RAdd(Head(s), SumSeq(Tail(s)))

RECURSIVE RealSum(_)
RealSum(s) == IF s = <<>> THEN {} ELSE RealAdd(Head(s), RealSum(Tail(s)))

VAdd(u, v) == [j \in 1..Len(u) |-> RAdd(u[j], v[j])]
\* M @ v
MatVec(M, v) == [j \in 1..Len(M) |-> SumSeq([k \in 1..Len(v) |-> RMul(M[j][k], v[k])])]
\* v @ M
VecMat(v, M) == [j \in 1..Len(M[1]) |-> SumSeq([k \in 1..Len(v) |-> RMul(v[k], M[k][j])])]
MAdd(A, B) == [j \in 1..Len(A) |-> VAdd(A[j], B[j])]
MScale(c, A) == [j \in 1..Len(A) |-> [k \in 1..Len(A[j]) |-> RMul(c, A[j][k])]]
Eye(d) == [j \in 1..d |-> [k \in 1..d |-> IF j = k THEN One ELSE Zero]]
\* np.sum(x, axis=0)
ColSum(x) == [j \in 1..Len(x[1]) |-> SumSeq([i \in 1..Len(x) |-> x[i][j]])]

IsSymmetric(A) == \A j \in 1..Len(A) : \A k \in 1..Len(A) : A[j][k] = A[k][j]

Det(A) == IF Len(A) = 1 THEN A[1][1]
          ELSE RSub(RMul(A[1][1], A[2][2]), RMul(A[1][2], A[2][1]))

\* true symmetric positive-definiteness of a d x d matrix, d <= 2 (Sylvester)
IsSPD(A) ==
  /\ IsSymmetric(A)
  /\ RPos(A[1][1])
  /\ RPos(Det(A))

\* ------------------------------------------------------- Python values

NoneVal == [kind |-> "None"]
NoErr == "none"
ScaleErr == "ValueError: posterior of MvNormal: scale must be one."
CovErr == "ValueError: mvnorm: argument cov must contain dxd ndarrays, with d>1, defining a symmetric positive matrix"
NotSquareErr == "ValueError: Input array is expected to be square"
LinAlgErr == "LinAlgError"
\* bool() of an array of several elements, as in "if self.scale != 1.:"
AmbiguousErr == "ValueError: The truth value of an array with more than one element is ambiguous"
IsValueError(e) == e \in {ScaleErr, CovErr, NotSquareErr, AmbiguousErr}

\* a scale argument: a scalar (vec FALSE, v = <<q>>) or a (d,) array
Scalar(q) == [vec |-> FALSE, v |-> <<q>>]
Vector(v) == [vec |-> TRUE, v |-> v]
\* the factor coordinate j is multiplied by (broadcasting)
ScaleAt(scale, j) == IF scale.vec THEN scale.v[j] ELSE scale.v[1]

\* the names bound at module level (imports and HALFLOG2PI)
ModuleGlobals ==
  {"division", "print_function", "OrderedDict", "S", "np", "random", "stats",
   "cholesky", "solve_triangular", "inv", "HALFLOG2PI"}

\* A covariance argument: an ndarray of 3 axes (a: its matrices) or of 2 axes
\* (a: the one matrix), or None (ndim 0).
Arr(n, a) == [ndim |-> n, a |-> a]
NoCov == Arr(0, <<>>)
\* cov.shape[0]
Shape0(cov) == IF cov.ndim = 3 THEN Len(cov.a) ELSE Len(cov.a[1])
\* cov[i] taken as the one matrix itself when cov has 2 axes
Item_Shared(cov, i) == [ndim |-> 2, m |-> IF cov.ndim = 3 THEN cov.a[i] ELSE cov.a[1]]

\* cov[i] (1-based): a matrix, or a row of the one matrix; m holds it as
\* np.atleast_2d gives it
Item(cov, i) == IF cov.ndim = 3 THEN [ndim |-> 2, m |-> cov.a[i]]
                ELSE [ndim |-> 1, m |-> <<cov.a[1][i]>>]

\* ------------------------------------------------------- scipy.linalg

\* LAPACK potrf with lower=True on a square matrix of order <= 2: only the
\* lower triangle is read, the strict upper triangle of the result is zero.
Potrf(A) ==
  LET d == Len(A)
      a11 == A[1][1]
      l11 == Sqrt(a11)
      l21 == RatOverReal(A[2][1], l11)
      rest == RSub(A[2][2], SquareOf(l21))
  IN  IF ~RPos(a11) THEN [err |-> LinAlgErr, L |-> <<>>]
      ELSE IF d = 1 THEN [err |-> NoErr, L |-> <<<<l11>>>>]
      ELSE IF ~RPos(rest) THEN [err |-> LinAlgErr, L |-> <<>>]
      ELSE [err |-> NoErr, L |-> <<<<l11, {}>>, <<l21, Sqrt(rest)>>>>]

\* cholesky(a, lower=True): a is made 2-D (atleast_2d), must then be square
cholesky(item) ==
  LET a2 == item.m
  IN  IF Len(a2) # Len(a2[1])
      THEN [err |-> NotSquareErr, L |-> <<>>]
      ELSE Potrf(a2)

\* inv(a) of a square matrix of order <= 2
inv(A) ==
  LET dt == Det(A)
  IN  IF dt = Zero THEN [err |-> LinAlgErr, M |-> <<>>]
      ELSE IF Len(A) = 1 THEN [err |-> NoErr, M |-> <<<<RInv(dt)>>>>]
      ELSE [err |-> NoErr,
            M |-> <<<<RDiv(A[2][2], dt), RNeg(RDiv(A[1][2], dt))>>,
                    <<RNeg(RDiv(A[2][1], dt)), RDiv(A[1][1], dt)>>>>]

\* ------------------------------------------------------------ MvNormal

\* np.sum(np.log(np.diag(L))) as (1/2) ln of the product of the squares
SumLogDiag(L) ==
  [halfln |-> IF Len(L) = 1 THEN SquareOf(L[1][1])
              ELSE RMul(SquareOf(L[1][1]), SquareOf(L[2][2]))]

\* the index of the first entry of cov whose factorization fails, 0 if none
FirstBad(cov) ==
  LET bad == {i \in 1..Shape0(cov) : cholesky(Item(cov, i)).err # NoErr}
  IN  IF bad = {} THEN 0 ELSE CHOOSE i \in bad : \A j \in bad : i <= j

\* MvNormal.__init__(self, loc, scale, cov) run on a new object id:
\* [err, self]; self is NoneVal when the constructor raises.
MvNormalInit(id, loc, scale, cov0) ==
  LET cov == IF cov0 = NoCov
             THEN Arr(3, [i \in 1..Len(loc) |-> Eye(Len(loc[1]))])
             ELSE cov0
      first == cholesky(Item(cov, 1))
      \* cov[0].shape == (dim, dim), dim = cov.shape[-1]
      shapeOk == Item(cov, 1).ndim = 2 /\ Len(cov.a[1]) = Len(cov.a[1][1])
      bad == FirstBad(cov)
      L_list == [i \in 1..Shape0(cov) |-> cholesky(Item(cov, i)).L]
  IN  IF first.err # NoErr THEN [err |-> CovErr, self |-> NoneVal]
      ELSE IF ~shapeOk THEN [err |-> "AssertionError", self |-> NoneVal]
      ELSE IF bad # 0 THEN [err |-> LinAlgErr, self |-> NoneVal]
      ELSE [err |-> NoErr,
            self |-> [kind |-> "MvNormal", id |-> id, loc |-> loc, scale |-> scale,
                      cov |-> cov, L |-> first.L, L_list |-> L_list,
                      halflogdetcor |-> [i \in 1..Len(L_list) |-> SumLogDiag(L_list[i])]]]

number(self) == Shape0(self.cov)
dim(self) == Len(self.cov.a[1][1])

\* what a method call yields: the receiver after the call, the value returned
\* (NoneVal when it raises), the exception, and the number of inv() calls made
Result(self, ret, err, ninv) == [self |-> self, ret |-> ret, err |-> err, ninv |-> ninv]
Raise(self, err, ninv) == Result(self, NoneVal, err, ninv)
Array(rows) == [kind |-> "array", rows |-> rows]

\* loc[i] + scale * np.dot(z[i], L_list[i].T), entry i (1-based)
TransformRow(self, z, i) ==
  [j \in 1..Len(self.L_list[i]) |->
     RealAdd(RealOfRat(self.loc[i][j]),
             RealScale(ScaleAt(self.scale, j),
                       RealSum([k \in 1..Len(z[i]) |->
                                  RealScale(z[i][k], self.L_list[i][j][k])])))]

linear_transform(self, z) ==
  IF \E i \in 1..Len(z) : i > Len(self.loc) \/ i > Len(self.L_list)
  THEN Raise(self, "IndexError", 0)
  ELSE Result(self, Array([i \in 1..Len(z) |-> TransformRow(self, z, i)]), NoErr, 0)

\* an optional integer argument: size=None or size=n
NoSize == [none |-> TRUE, n |-> 0]
Size(n) == [none |-> FALSE, n |-> n]

\* stats.norm.rvs(size=(N, d)): the first N rows of the generator's stream
norm_rvs(rng, N) == [i \in 1..N |-> rng[i]]

\* rvs with the request cut down to the rows there are, instead of raising
rvs_truncating(self, size, rng) ==
  IF size.none THEN Raise(self, "UnboundLocalError", 0)
  ELSE linear_transform(self, norm_rvs(rng, IF size.n > number(self) THEN number(self) ELSE size.n))

\* MvNormal.rvs(self, size): the local N is bound only in the last branch
rvs(self, size, rng) ==
  LET N == IF size.none \/ size.n > number(self)
           THEN [bound |-> FALSE, v |-> 0]
           ELSE [bound |-> TRUE, v |-> size.n]
  IN  IF ~size.none /\ size.n > number(self) THEN Raise(self, "AssertionError", 0)
      ELSE IF ~N.bound THEN Raise(self, "UnboundLocalError", 0)
      ELSE linear_transform(self, norm_rvs(rng, N.v))

\* MvNormal.logpdf(self, x): the loop body reads the bare names L, loc and
\* scale, which are neither locals of logpdf nor module globals.  With no
\* row the loop is skipped: logdet (0 values) += halflogdetcor needs
\* number = 1 to broadcast, and np.sum(z * z, axis=1) of the 1-D empty z
\* has no axis 1.
logpdf(self, x) ==
  LET unbound == {"L", "loc", "scale"} \ (ModuleGlobals \cup {"self", "x", "z", "i"})
  IN  IF Len(x) > number(self) THEN Raise(self, "AssertionError", 0)
      ELSE IF Len(x) > 0 /\ unbound # {} THEN Raise(self, "NameError", 0)
      ELSE IF Len(x) # number(self) /\ ~(Len(x) = 0 /\ number(self) = 1)
      THEN Raise(self, "ValueError: operands could not be broadcast together", 0)
      ELSE IF Len(x) = 0 THEN Raise(self, "AxisError", 0)
      \* not reached while a name of the loop body is unbound
      ELSE Result(self, Array([i \in 1..Len(x) |-> <<>>]), NoErr, 0)

\* stats.norm.ppf at the levels Phi(-1), 1/2, Phi(1)
norm_ppf(p) == CASE p = "Phi(-1)" -> R(-1)
                 [] p = "1/2" -> Zero
                 [] p = "Phi(1)" -> One

\* MvNormal.ppf(self, u), u of shape (N, du) with du <= dim
ppf(self, u) ==
  LET du == Len(u[1])
      z == [i \in 1..Len(u) |->
              [k \in 1..dim(self) |-> IF k <= du THEN norm_ppf(u[i][k]) ELSE Zero]]
  IN  linear_transform(self, z)

\* the guard of posterior left out
ScaleNotChecked(self) == "one"

\* line 919, "if self.scale != 1.:": the comparison is elementwise, and the
\* truth value of an array of several elements is an error
ScaleCheck(self) ==
  IF Len(self.scale.v) > 1 THEN "ambiguous"
  ELSE IF self.scale.v[1] = One THEN "one"
  ELSE "notone"

\* the posterior precision without the prior's
QpostEntry_NoPrior(covinv_i, Siginv_i, n) == MScale(R(n), Siginv_i)

\* line 927: Qpost[i] = covinv[i] + n * Siginv[i]
QpostEntry(covinv_i, Siginv_i, n) == MAdd(covinv_i, MScale(R(n), Siginv_i))

\* line 932: mupost[i] = Sigpost[i] @ (m[i] @ covinv[i] + Siginv[i] @ np.sum(x, axis=0))
MupostEntry(Sigpost_i, m_i, covinv_i, Siginv_i, x) ==
  MatVec(Sigpost_i, VAdd(VecMat(m_i, covinv_i), MatVec(Siginv_i, ColSum(x))))

\* mupost bound to the prior's own mean array (mupost = m) instead of a new
\* one: the loop's writes land in self.loc
SelfAfterPosterior_Aliased(self, mupost) ==
  [self EXCEPT !.loc = [i \in 1..Len(self.loc) |->
                          IF i <= Len(mupost) THEN mupost[i] ELSE self.loc[i]]]

\* The receiver after posterior: Qpost and mupost are new arrays
\* (np.empty_like), m is only read, so no write of the loops reaches self.
SelfAfterPosterior(self, mupost) == self

\* MvNormal.posterior(self, x, Sigma) with Sigma None (NoCov) or (n, d, d);
\* the instance it returns is built on the new object id newid.  ninv counts
\* the inv() calls of the comprehensions entered so far.
posterior(self, x, Sigma0, newid) ==
  LET n == Len(x)
      Sigma == IF Sigma0 = NoCov THEN [i \in 1..n |-> Eye(dim(self))] ELSE Sigma0.a
      SigRes == [i \in 1..Len(Sigma) |-> inv(Sigma[i])]
      covRes == [i \in 1..number(self) |-> inv(self.cov.a[i])]
      Siginv == [i \in 1..Len(Sigma) |-> SigRes[i].M]
      covinv == [i \in 1..number(self) |-> covRes[i].M]
      Qpost == [i \in 1..n |-> QpostEntry(covinv[i], Siginv[i], n)]
      QRes == [i \in 1..n |-> inv(Qpost[i])]
      Sigpost == [i \in 1..n |-> QRes[i].M]
      m == self.loc
      mupost == [i \in 1..n |-> MupostEntry(Sigpost[i], m[i], covinv[i], Siginv[i], x)]
      made == MvNormalInit(newid, mupost, Scalar(One), Arr(3, Sigpost))
      ninv1 == Len(Sigma)
      ninv2 == ninv1 + number(self)
      ninv3 == ninv2 + n
  IN  IF ScaleCheck(self) = "ambiguous" THEN Raise(self, AmbiguousErr, 0)
      ELSE IF ScaleCheck(self) = "notone" THEN Raise(self, ScaleErr, 0)
      ELSE IF \E i \in 1..Len(Sigma) : SigRes[i].err # NoErr THEN Raise(self, LinAlgErr, ninv1)
      ELSE IF \E i \in 1..number(self) : covRes[i].err # NoErr THEN Raise(self, LinAlgErr, ninv2)
      ELSE IF n > number(self) \/ n > Len(Sigma) THEN Raise(self, "IndexError", ninv2)
      ELSE IF \E i \in 1..n : QRes[i].err # NoErr THEN Raise(self, LinAlgErr, ninv3)
      ELSE IF n > Len(m) THEN Raise(self, "IndexError", ninv3)
      ELSE IF made.err # NoErr THEN Raise(SelfAfterPosterior(self, mupost), made.err, ninv3)
      ELSE Result(SelfAfterPosterior(self, mupost), made.self, NoErr, ninv3)

\* ------------------------------------------------------------- Mixture

\* a weight argument pk: a scalar (ndim 0), a vector (ndim 1) or an (N, k)
\* array (ndim 2); rows holds its rows (one row below 2 axes)
Weights(n, rows) == [ndim |-> n, rows |-> rows]
atleast_1d(pk) == IF pk.ndim = 0 THEN Weights(1, pk.rows) ELSE pk
\* shape[-1]
LastAxis(a) == Len(a.rows[1])

\* the attributes every Mixture has from its classes (ProbDist, Mixture)
MixtureClassAttrs == {"dim", "dtype", "shape", "logpdf", "pdf", "rvs", "ppf", "__init__"}

\* getattr(obj, name) on an object whose instance attributes are the fields
\* of the record attrs
GetAttr(attrs, name) ==
  IF name \in DOMAIN attrs THEN [found |-> TRUE, val |-> attrs[name]]
  ELSE [found |-> name \in MixtureClassAttrs, val |-> NoneVal]

SizeErr == "ValueError: Size of pk and nr of components should match"

\* Mixture.__init__(self, pk, *components): [err, self]; line 781 reads
\* self.p, an attribute nothing sets (line 780 sets self.pk)
MixtureInit(pk, components) ==
  LET s1 == [pk |-> atleast_1d(pk)]
      p == GetAttr(s1, "p")
      k == LastAxis(p.val)
  IN  IF ~p.found THEN [err |-> "AttributeError", self |-> NoneVal]
      ELSE IF Len(components) # k THEN [err |-> SizeErr, self |-> NoneVal]
      ELSE [err |-> NoErr,
            self |-> [kind |-> "Mixture", pk |-> s1.pk, k |-> k, components |-> components]]

\* ------------------------------------------------- floats and ndarrays

\* A float64 value of the univariate laws: a number q - h * HALFLOG2PI + ln p
\* ("fin": q rational, h an integer, p a positive rational; a plain number
\* has h = 0, p = 1), NaN, minus infinity, or ("phi") the level Phi(q) of the
\* standard normal distribution function.
FLog(q, h, p) == [t |-> "fin", q |-> q, h |-> h, p |-> p]
Fl(q) == FLog(q, 0, One)
FNaN == [t |-> "nan", q |-> Zero, h |-> 0, p |-> One]
FNegInf == [t |-> "ninf", q |-> Zero, h |-> 0, p |-> One]
FPhi(q) == [t |-> "phi", q |-> q, h |-> 0, p |-> One]

RLt(a, b) == a[1] * b[2] < b[1] * a[2]
RLe(a, b) == a[1] * b[2] <= b[1] * a[2]
\* floor of a rational
RFloor(a) == a[1] \div a[2]

\* a + b
FAdd(a, b) ==
  IF a.t = "nan" \/ b.t = "nan" THEN FNaN
  ELSE IF a.t = "ninf" \/ b.t = "ninf" THEN FNegInf
  ELSE FLog(RAdd(a.q, b.q), a.h + b.h, RMul(a.p, b.p))
\* -a, a finite or NaN
FNeg(a) == IF a.t = "nan" THEN FNaN ELSE FLog(RNeg(a.q), -a.h, RInv(a.p))
FSub(a, b) == FAdd(a, FNeg(b))
\* a * b and a / b of plain numbers (NaN propagates)
FMul(a, b) == IF a.t = "nan" \/ b.t = "nan" THEN FNaN ELSE Fl(RMul(a.q, b.q))
FDiv(a, b) == IF a.t = "nan" \/ b.t = "nan" THEN FNaN ELSE Fl(RDiv(a.q, b.q))
\* a == b, a >= b, a < b: every comparison with NaN is False
FEq(a, b) == a.t # "nan" /\ b.t # "nan" /\ a = b
FGe(a, b) == a.t = "fin" /\ b.t = "fin" /\ RLe(b.q, a.q)
FLt(a, b) == a.t = "fin" /\ b.t = "fin" /\ RLt(a.q, b.q)
\* np.log of a plain number
FLn(a) ==
  IF a.t = "nan" THEN FNaN
  ELSE IF a.q = Zero THEN FNegInf
  ELSE IF RLt(a.q, Zero) THEN FNaN
  ELSE FLog(Zero, 0, a.q)
FIsNaN(a) == a.t = "nan"

\* An ndarray, or (ndim 0, arr FALSE) a Python or numpy scalar: rows holds the N entries of a 1-D array
\* as N rows of one element, the rows of an (N, k) array as they are, and a
\* scalar as one row of one element.
Nd(ndim, dtype, rows) == [ndim |-> ndim, dtype |-> dtype, rows |-> rows, arr |-> ndim >= 1]
Nd0(dtype, v) == Nd(0, dtype, <<<<v>>>>)
\* a 0-d ndarray (what np.where and x[..., i] give for scalars), which unlike
\* a scalar is an ndarray and supports item assignment
AsArray(a) == [a EXCEPT !.arr = TRUE]
Nd1(dtype, s) == Nd(1, dtype, [i \in 1..Len(s) |-> <<s[i]>>])
Nd2(dtype, rows) == Nd(2, dtype, rows)
\* the elements of an array of at most one axis
Flat(a) == [i \in 1..Len(a.rows) |-> a.rows[i][1]]
\* a.shape[0]
Len0(a) == Len(a.rows)

\* what a method call of a law yields: a value, or an exception
Ok(val) == [err |-> NoErr, val |-> val]
Fail(e) == [err |-> e, val |-> NoneVal]
BroadcastErr == "ValueError: operands could not be broadcast together"

\* numpy broadcasting of two operands of at most one axis
Compatible(a, b) ==
  \/ a.ndim = 0 \/ b.ndim = 0
  \/ Len0(a) = Len0(b) \/ Len0(a) = 1 \/ Len0(b) = 1
BLen(a, b) ==
  IF a.ndim = 0 THEN Len0(b)
  ELSE IF b.ndim = 0 THEN Len0(a)
  ELSE IF Len0(a) = 1 THEN Len0(b) ELSE Len0(a)
BDim(a, b) == IF a.ndim >= b.ndim THEN a.ndim ELSE b.ndim
El(a, i) == IF Len0(a) = 1 THEN a.rows[1][1] ELSE a.rows[i][1]
\* the elementwise Op(a, b), as an array of the given dtype
Map2(Op(_, _), a, b, dtype) ==
  Nd(BDim(a, b), dtype, [i \in 1..BLen(a, b) |-> <<Op(El(a, i), El(b, i))>>])
Map1(Op(_), a, dtype) ==
  Nd(a.ndim, dtype, [i \in 1..Len0(a) |-> [j \in 1..Len(a.rows[i]) |-> Op(a.rows[i][j])]])

\* the generator: a stream of raw words 0 / 1; a standard normal draw made
\* from the word w is w, a uniform draw on [0, 1) is (1 + 2 w) / 4
Stream(rng, n) == [i \in 1..n |-> rng[i]]
Rest(rng, n) == [i \in 1..(Len(rng) - n) |-> rng[i + n]]
NormalOf(w) == Fl(R(w))
UniformOf(w) == Fl(Rat(1 + 2 * w, 4))
\* what rvs yields: a value or an exception, and the generator afterwards
Drew(val, rng) == [err |-> NoErr, val |-> val, rng |-> rng]
RvsFail(e, rng) == [err |-> e, val |-> NoneVal, rng |-> rng]

\* ----------------------------------------------------- univariate laws

NotImplementedErr == "NotImplementedError"

\* ProbDist.shape(size) for a law of dim 1: None, or (size,)
ProbDist_shape(size) == size

\* Normal(loc, scale)
Normal(loc, scale) == [kind |-> "Normal", loc |-> loc, scale |-> scale]

\* the density of N(loc, scale^2) at x:
\* -((x - loc) / scale)^2 / 2 - ln(scale) - HALFLOG2PI
NormLogpdfAt(x, loc, scale) ==
  IF x.t # "fin" \/ loc.t # "fin" \/ scale.t # "fin" \/ ~RPos(scale.q) THEN FNaN
  ELSE LET z == RDiv(RSub(x.q, loc.q), scale.q)
       IN  FLog(RNeg(RDiv(RMul(z, z), R(2))), 1, RInv(scale.q))

\* stats.norm.logpdf(x, loc=self.loc, scale=self.scale)
Normal_logpdf(self, x) ==
  LET ls == Map2(LAMBDA l, s : <<l, s>>, self.loc, self.scale, "float64")
  IN  IF ~Compatible(self.loc, self.scale) \/ ~Compatible(x, ls) THEN Fail(BroadcastErr)
      ELSE Ok(Map2(LAMBDA v, p : NormLogpdfAt(v, p[1], p[2]), x, ls, "float64"))

\* random.normal(loc, scale, size=self.shape(size)): loc + scale * z
Normal_rvs(self, size, rng) ==
  LET ls == Map2(LAMBDA l, s : <<l, s>>, self.loc, self.scale, "float64")
      shape == ProbDist_shape(size)
      n == IF shape.none THEN BLen(self.loc, self.scale) ELSE shape.n
      z == IF shape.none THEN Nd(ls.ndim, "float64", [i \in 1..n |-> <<NormalOf(rng[i])>>])
           ELSE Nd1("float64", [i \in 1..n |-> NormalOf(rng[i])])
  IN  IF ~Compatible(self.loc, self.scale) \/ ~Compatible(z, ls) \/ BLen(z, ls) # n
      THEN RvsFail(BroadcastErr, rng)
      ELSE Drew(Map2(LAMBDA w, p : FAdd(p[1], FMul(p[2], w)), z, ls, "float64"), Rest(rng, n))

\* stats.norm.ppf of one level: the level Phi(z) gives loc + scale * z
NormPpfAt(u, loc, scale) ==
  IF u.t # "phi" \/ loc.t # "fin" \/ scale.t # "fin" \/ ~RPos(scale.q) THEN FNaN
  ELSE Fl(RAdd(loc.q, RMul(scale.q, u.q)))

Normal_ppf(self, u) ==
  LET ls == Map2(LAMBDA l, s : <<l, s>>, self.loc, self.scale, "float64")
  IN  IF ~Compatible(self.loc, self.scale) \/ ~Compatible(u, ls) THEN Fail(BroadcastErr)
      ELSE Ok(Map2(LAMBDA v, p : NormPpfAt(v, p[1], p[2]), u, ls, "float64"))

\* FlatNormal(loc)
FlatNormal(loc) == [kind |-> "FlatNormal", loc |-> loc]

\* 0. * (x + self.loc)
FlatNormal_logpdf(self, x) ==
  IF ~Compatible(x, self.loc) THEN Fail(BroadcastErr)
  ELSE Ok(Map2(LAMBDA v, l : FMul(Fl(Zero), FAdd(v, l)), x, self.loc, "float64"))

\* self.loc + np.full(sz, np.nan), sz = 1 when size is None
FlatNormal_rvs(self, size, rng) ==
  LET sz == IF size.none THEN 1 ELSE size.n
      nans == Nd1("float64", [i \in 1..sz |-> FNaN])
  IN  IF ~Compatible(self.loc, nans) THEN RvsFail(BroadcastErr, rng)
      ELSE Drew(Map2(FAdd, self.loc, nans, "float64"), rng)

\* Dirac(loc): loc a scalar or an ndarray
Dirac(loc) == [kind |-> "Dirac", loc |-> loc]

\* an ndarray loc is returned as it is (a copy), whatever size is
Dirac_rvs(self, size, rng) ==
  IF self.loc.arr THEN Drew(self.loc, rng)
  ELSE LET N == IF size.none THEN 1 ELSE size.n
       IN  Drew(Nd1(self.loc.dtype, [i \in 1..N |-> self.loc.rows[1][1]]), rng)

\* np.where(x == self.loc, 0., -np.inf); a comparison of arrays that do not
\* broadcast raises
Dirac_logpdf(self, x) ==
  IF ~Compatible(x, self.loc) THEN Fail(BroadcastErr)
  ELSE Ok(AsArray(Map2(LAMBDA v, l : IF FEq(v, l) THEN Fl(Zero) ELSE FNegInf,
                      x, self.loc, "float64")))

\* self.rvs(size=u.shape[0]); a scalar u has no shape[0]
Dirac_ppf(self, u) ==
  IF u.ndim = 0 THEN Fail("IndexError")
  ELSE LET r == Dirac_rvs(self, Size(Len0(u)), <<>>)
       IN  [err |-> r.err, val |-> r.val]

\* Categorical(p): p a (k,) or an (N, k) array, kept as its rows
Categorical(p) == [kind |-> "Categorical", p |-> p]

\* the rows of a weight array: the one row of a (k,) array, or its N rows
PRows(p) == IF p.ndim = 1 THEN <<Flat(p)>> ELSE p.rows
\* the length of the first axis of p
PLen0(p) == IF p.ndim = 1 THEN Len(Flat(p)) ELSE Len(p.rows)
\* index j (0-based, negative from the end) into an axis of length n
InRange(j, n) == -n <= j /\ j < n
Wrap(j, n) == IF j < 0 THEN j + n + 1 ELSE j + 1
IsIntegral(v) == v.t = "fin" /\ v.q[2] = 1

\* np.log(self.p[x]): x indexes the first axis of p
Categorical_logpdf(self, x) ==
  LET n == PLen0(self.p)
      idx == [i \in 1..Len0(x) |-> x.rows[i][1].q[1]]
  IN  IF x.dtype # "int64" THEN Fail("IndexError")
      ELSE IF \E i \in 1..Len0(x) : ~InRange(idx[i], n) THEN Fail("IndexError")
      ELSE IF self.p.ndim = 1
      THEN Ok(Nd(x.ndim, "float64",
                 [i \in 1..Len0(x) |-> <<FLn(Flat(self.p)[Wrap(idx[i], n)])>>]))
      ELSE IF x.ndim = 0
      THEN Ok(Nd1("float64", [j \in 1..Len(self.p.rows[1]) |->
                                FLn(self.p.rows[Wrap(idx[1], n)][j])]))
      ELSE Ok(Nd2("float64", [i \in 1..Len0(x) |->
                                [j \in 1..Len(self.p.rows[1]) |->
                                   FLn(self.p.rows[Wrap(idx[i], n)][j])]]))

RECURSIVE CumSum(_)
CumSum(s) == IF Len(s) = 0 THEN <<>>
             ELSE LET c == CumSum(SubSeq(s, 1, Len(s) - 1))
                  IN  Append(c, IF Len(c) = 0 THEN s[1] ELSE FAdd(c[Len(c)], s[Len(s)]))
\* np.searchsorted(cp, u): the number of entries of the sorted cp below u
SearchSorted(cp, u) == Cardinality({j \in 1..Len(cp) : FLt(cp[j], u)})

\* Categorical.rvs: with an (N, k) p, entry i is drawn from row i of p
Categorical_rvs(self, size, rng) ==
  LET np1 == self.p.ndim = 1
      N == IF ~size.none THEN size.n ELSE IF np1 THEN 1 ELSE Len(self.p.rows)
      u == [i \in 1..N |-> UniformOf(rng[i])]
  IN  IF np1
      THEN Drew(Nd1("int64", [i \in 1..N |->
                    Fl(R(SearchSorted(CumSum(Flat(self.p)), u[i])))]), Rest(rng, N))
      ELSE IF N > Len(self.p.rows) THEN RvsFail("IndexError", Rest(rng, N))
      ELSE Drew(Nd1("int64", [i \in 1..N |->
                    Fl(R(SearchSorted(CumSum(self.p.rows[i]), u[i])))]), Rest(rng, N))

\* DiscreteUniform(lo, hi), lo < hi integers
DiscreteUniform(lo, hi) ==
  [kind |-> "DiscreteUniform", lo |-> lo, hi |-> hi, log_norm_cst |-> FLn(Fl(R(hi - lo)))]

\* np.where((x >= self.lo) & (x < self.hi), -self.log_norm_cst, -np.inf)
DiscreteUniform_logpdf(self, x) ==
  Ok(AsArray(Map1(LAMBDA v : IF FGe(v, Fl(R(self.lo))) /\ FLt(v, Fl(R(self.hi)))
                             THEN FNeg(self.log_norm_cst) ELSE FNegInf, x, "float64")))

\* random.randint(self.lo, high=self.hi, size=size): a scalar when size is None
DiscreteUniform_rvs(self, size, rng) ==
  LET n == IF size.none THEN 1 ELSE size.n
      draw == [i \in 1..n |->
                 Fl(R(self.lo + RFloor(RMul(UniformOf(rng[i]).q, R(self.hi - self.lo)))))]
  IN  Drew(IF size.none THEN Nd0("int64", draw[1]) ELSE Nd1("int64", draw), Rest(rng, n))

\* --------------------------------------------------------- combinators

\* the methods of ProbDist, which a class that does not define them inherits
ProbDist_logpdf(self, x) == Fail(NotImplementedErr)
ProbDist_rvs(self, size, rng) == RvsFail(NotImplementedErr, rng)
\* a ppf that answers NaN for every level instead of raising
ProbDist_ppf_NaN(self, u) == Ok(Map1(LAMBDA v : FNaN, u, "float64"))
ProbDist_ppf(self, u) == Fail(NotImplementedErr)

\* the methods each class defines itself or inherits from a class other
\* than ProbDist (LinearD from TransformedDist)
Defines(kind) ==
  CASE kind = "ProbDist" -> {}
    [] kind = "Normal" -> {"rvs", "logpdf", "ppf", "posterior"}
    [] kind = "FlatNormal" -> {"logpdf", "rvs"}
    [] kind = "Dirac" -> {"rvs", "logpdf", "ppf"}
    [] kind = "Categorical" -> {"logpdf", "rvs"}
    [] kind = "DiscreteUniform" -> {"logpdf", "rvs"}
    [] kind = "LinearD" -> {"f", "finv", "logJac", "rvs", "logpdf", "ppf"}
    [] kind = "Mixture" -> {"logpdf", "rvs"}
    [] kind = "MixMissing" -> {"logpdf", "rvs"}
    [] kind = "MvNormal_new" -> {"linear_transform", "logpdf", "rvs", "posterior"}
    [] kind = "IndepProd" -> {"logpdf", "rvs", "ppf"}
    [] kind = "Cond" -> {"__call__"}
    [] kind = "StructDist" -> {"logpdf", "rvs", "ppf"}

\* the classes derived from DiscreteDist, whose class attribute dtype is 'int64'
DiscreteKinds == {"Categorical", "DiscreteUniform"}
\* law.dtype and law.dim: the instance's attribute, else the class's
Law_dtype(law) ==
  IF "dtype" \in DOMAIN law THEN law.dtype
  ELSE IF law.kind \in DiscreteKinds THEN "int64" ELSE "float64"
Law_dim(law) ==
  IF "dim" \in DOMAIN law THEN law.dim
  ELSE IF law.kind = "MvNormal_new" THEN Len(law.cov[1])
  ELSE 1

RECURSIVE Law_logpdf(_, _)
RECURSIVE Law_rvs(_, _, _)
RECURSIVE Law_ppf(_, _)

\* LinearD(base_dist, a, b), a and b Python floats
LinearD(base_dist, a, b) == [kind |-> "LinearD", base_dist |-> base_dist, a |-> a, b |-> b]
\* self.a * x + self.b
LinearD_f(self, x) == Map1(LAMBDA v : FAdd(FMul(self.a, v), self.b), x, "float64")
\* (x - self.b) / self.a
LinearD_finv(self, x) == Map1(LAMBDA v : FDiv(FSub(v, self.b), self.a), x, "float64")
\* -np.log(self.a)
LinearD_logJac(self, x) == FNeg(FLn(self.a))

\* self.f(self.base_dist.rvs(size=size))
TransformedDist_rvs(self, size, rng) ==
  LET r == Law_rvs(self.base_dist, size, rng)
  IN  IF r.err # NoErr THEN r ELSE Drew(LinearD_f(self, r.val), r.rng)

\* self.base_dist.logpdf(self.finv(x)) + self.logJac(x)
TransformedDist_logpdf(self, x) ==
  LET r == Law_logpdf(self.base_dist, LinearD_finv(self, x))
  IN  IF r.err # NoErr THEN r
      ELSE Ok(Map1(LAMBDA v : FAdd(v, LinearD_logJac(self, x)), r.val, "float64"))

\* self.f(self.base_dist.ppf(u))
TransformedDist_ppf(self, u) ==
  LET r == Law_ppf(self.base_dist, u)
  IN  IF r.err # NoErr THEN r ELSE Ok(LinearD_f(self, r.val))

\* MixMissing(pmiss, base_dist), pmiss a Python float
MixMissing(pmiss, base_dist) == [kind |-> "MixMissing", pmiss |-> pmiss, base_dist |-> base_dist]

\* a variant that adds log(pmiss) to the base value of a missing entry
MixMissing_logpdf_Add(self, x) ==
  LET r == Law_logpdf(self.base_dist, x)
      l == r.val
      ina1 == [i \in 1..Len0(x) |-> FIsNaN(x.rows[i][1])]
      ina == IF Len(ina1) = 1 THEN [i \in 1..Len0(l) |-> ina1[1]] ELSE ina1
      lmiss == FLn(self.pmiss)
      lobs == FLn(FSub(Fl(One), self.pmiss))
  IN  IF r.err # NoErr THEN r
      ELSE IF ~l.arr THEN Fail("TypeError")
      ELSE IF Len(ina) # Len0(l) THEN Fail("IndexError")
      ELSE Ok(Nd(l.ndim, l.dtype,
                 [i \in 1..Len0(l) |->
                    [j \in 1..Len(l.rows[i]) |->
                       FAdd(l.rows[i][j], IF ina[i] THEN lmiss ELSE lobs)]]))

\* MixMissing.logpdf(self, x), x of at most one axis.  ina is the mask of
\* the NaN entries of x as a 1-D array; when it has one entry it is spread
\* over the shape of l (np.full_like).  The mask then selects along the
\* first axis of l.
MixMissing_logpdf(self, x) ==
  LET r == Law_logpdf(self.base_dist, x)
      l == r.val
      ina1 == [i \in 1..Len0(x) |-> FIsNaN(x.rows[i][1])]
      ina == IF Len(ina1) = 1 THEN [i \in 1..Len0(l) |-> ina1[1]] ELSE ina1
      lmiss == FLn(self.pmiss)
      lobs == FLn(FSub(Fl(One), self.pmiss))
  IN  IF r.err # NoErr THEN r
      ELSE IF ~l.arr THEN Fail("TypeError")
      ELSE IF Len(ina) # Len0(l) THEN Fail("IndexError")
      ELSE Ok(Nd(l.ndim, l.dtype,
                 [i \in 1..Len0(l) |->
                    [j \in 1..Len(l.rows[i]) |->
                       IF ina[i] THEN lmiss ELSE FAdd(l.rows[i][j], lobs)]]))

\* MixMissing.rvs: the base draw, entry i overwritten with NaN when the
\* uniform draw i is below pmiss
MixMissing_rvs(self, size, rng) ==
  LET r == Law_rvs(self.base_dist, size, rng)
      x == r.val
      N == Len0(x)
      is_missing == [i \in 1..N |-> FLt(UniformOf(r.rng[i]), self.pmiss)]
  IN  IF r.err # NoErr THEN r
      ELSE IF x.ndim = 0 THEN RvsFail("IndexError", r.rng)
      ELSE IF x.dtype = "int64" THEN RvsFail("ValueError: cannot convert float NaN to integer", Rest(r.rng, N))
      ELSE Drew(Nd(x.ndim, x.dtype,
                   [i \in 1..N |-> [j \in 1..Len(x.rows[i]) |->
                                      IF is_missing[i] THEN FNaN ELSE x.rows[i][j]]]),
                Rest(r.rng, N))

\* a variant whose dtype is 'int64' as soon as one component is discrete
IndepProdInit_Any(dists) ==
  [kind |-> "IndepProd", dists |-> dists, dim |-> Len(dists),
   dtype |-> IF \E i \in 1..Len(dists) : Law_dtype(dists[i]) = "int64"
             THEN "int64" ELSE "float64"]

\* IndepProd.__init__(self, *dists)
IndepProdInit(dists) ==
  [kind |-> "IndepProd", dists |-> dists, dim |-> Len(dists),
   dtype |-> IF \A i \in 1..Len(dists) : Law_dtype(dists[i]) = "int64"
             THEN "int64" ELSE "float64"]

\* IID(law, k): IndepProd(*[law for _ in range(k)])
IID(law, k) == IndepProdInit([i \in 1..k |-> law])

\* x[..., i] (i 1-based here): entry i of a vector as a 0-d array, column i
\* of an (N, k) array
LastAxisLen(x) == IF x.ndim = 1 THEN Len(x.rows) ELSE Len(x.rows[1])
\* every law given the first coordinate
Coordinate_First(x, i) ==
  IF x.ndim = 1 THEN AsArray(Nd0(x.dtype, x.rows[1][1]))
  ELSE Nd1(x.dtype, [n \in 1..Len(x.rows) |-> x.rows[n][1]])

Coordinate(x, i) ==
  IF x.ndim = 1 THEN AsArray(Nd0(x.dtype, x.rows[i][1]))
  ELSE Nd1(x.dtype, [n \in 1..Len(x.rows) |-> x.rows[n][i]])

\* d.logpdf(c) or d.ppf(c), by the method's name
Apply(method, d, c) == IF method = "logpdf" THEN Law_logpdf(d, c) ELSE Law_ppf(d, c)

\* the outcomes of d.method(x[..., i]) for the dists in order, from the i-th
\* on, up to and including the first that raises
RECURSIVE PerCoordinate(_, _, _, _)
PerCoordinate(method, dists, x, i) ==
  IF i > Len(dists) THEN <<>>
  ELSE IF x.ndim = 0 \/ i > LastAxisLen(x) THEN <<Fail("IndexError")>>
  ELSE LET r == Apply(method, dists[i], Coordinate(x, i))
       IN  IF r.err # NoErr THEN <<r>>
           ELSE <<r>> \o PerCoordinate(method, dists, x, i + 1)

\* Python's sum(terms): 0 + terms[0] + terms[1] + ..., with broadcasting
RECURSIVE SumOutcomes(_, _)
SumOutcomes(acc, terms) ==
  IF terms = <<>> THEN Ok(acc)
  ELSE IF ~Compatible(acc, Head(terms)) THEN Fail(BroadcastErr)
  ELSE SumOutcomes(Map2(FAdd, acc, Head(terms), "float64"), Tail(terms))

\* sum([d.logpdf(x[..., i]) for i, d in enumerate(self.dists)])
IndepProd_logpdf(self, x) ==
  LET rs == PerCoordinate("logpdf", self.dists, x, 1)
  IN  IF rs # <<>> /\ rs[Len(rs)].err # NoErr THEN rs[Len(rs)]
      ELSE SumOutcomes(Nd0("int64", Fl(Zero)), [i \in 1..Len(rs) |-> rs[i].val])

\* np.stack(arrays, axis=1) of arrays of at most one axis
Stack1(arrays) ==
  IF arrays = <<>> THEN Fail("ValueError: need at least one array to stack")
  ELSE IF \E i \in 1..Len(arrays) :
            arrays[i].ndim # arrays[1].ndim \/ Len0(arrays[i]) # Len0(arrays[1])
  THEN Fail("ValueError: all input arrays must have the same shape")
  ELSE IF arrays[1].ndim = 0 THEN Fail("AxisError")
  ELSE Ok(Nd2(IF \A i \in 1..Len(arrays) : arrays[i].dtype = "int64"
              THEN "int64" ELSE "float64",
              [n \in 1..Len0(arrays[1]) |-> [i \in 1..Len(arrays) |-> arrays[i].rows[n][1]]]))

\* the draws d.rvs(size=size) of the dists in order, each reading the
\* generator where the one before left it, up to the first that raises
RECURSIVE DrawEach(_, _, _)
DrawEach(dists, size, rng) ==
  IF dists = <<>> THEN <<>>
  ELSE LET r == Law_rvs(Head(dists), size, rng)
       IN  IF r.err # NoErr THEN <<r>>
           ELSE <<r>> \o DrawEach(Tail(dists), size, r.rng)

\* np.stack([d.rvs(size=size) for d in self.dists], axis=1)
IndepProd_rvs(self, size, rng) ==
  LET rs == DrawEach(self.dists, size, rng)
      last == IF rs = <<>> THEN rng ELSE rs[Len(rs)].rng
      st == Stack1([i \in 1..Len(rs) |-> rs[i].val])
  IN  IF rs # <<>> /\ rs[Len(rs)].err # NoErr THEN rs[Len(rs)]
      ELSE [err |-> st.err, val |-> st.val, rng |-> last]

\* np.stack([d.ppf(u[..., i]) for i, d in enumerate(self.dists)], axis=1)
IndepProd_ppf(self, u) ==
  LET rs == PerCoordinate("ppf", self.dists, u, 1)
  IN  IF rs # <<>> /\ rs[Len(rs)].err # NoErr THEN rs[Len(rs)]
      ELSE Stack1([i \in 1..Len(rs) |-> rs[i].val])

\* MvNormal_new(loc) with cov=None: an identity per row of loc; the
\* assertion on cov[0].shape then holds
MvNormal_new(loc) ==
  [kind |-> "MvNormal_new", loc |-> loc, cov |-> [i \in 1..Len(loc) |-> Eye(Len(loc[1]))]]

\* law.logpdf(x): the method of the law's class
Law_logpdf(law, x) ==
  IF "logpdf" \notin Defines(law.kind) THEN ProbDist_logpdf(law, x)
  ELSE CASE law.kind = "Normal" -> Normal_logpdf(law, x)
         [] law.kind = "FlatNormal" -> FlatNormal_logpdf(law, x)
         [] law.kind = "Dirac" -> Dirac_logpdf(law, x)
         [] law.kind = "Categorical" -> Categorical_logpdf(law, x)
         [] law.kind = "DiscreteUniform" -> DiscreteUniform_logpdf(law, x)
         [] law.kind = "LinearD" -> TransformedDist_logpdf(law, x)
         [] law.kind = "MixMissing" -> MixMissing_logpdf(law, x)
         [] law.kind = "IndepProd" -> IndepProd_logpdf(law, x)

\* law.rvs(size=size)
Law_rvs(law, size, rng) ==
  IF "rvs" \notin Defines(law.kind) THEN ProbDist_rvs(law, size, rng)
  ELSE CASE law.kind = "Normal" -> Normal_rvs(law, size, rng)
         [] law.kind = "FlatNormal" -> FlatNormal_rvs(law, size, rng)
         [] law.kind = "Dirac" -> Dirac_rvs(law, size, rng)
         [] law.kind = "Categorical" -> Categorical_rvs(law, size, rng)
         [] law.kind = "DiscreteUniform" -> DiscreteUniform_rvs(law, size, rng)
         [] law.kind = "LinearD" -> TransformedDist_rvs(law, size, rng)
         [] law.kind = "MixMissing" -> MixMissing_rvs(law, size, rng)
         [] law.kind = "IndepProd" -> IndepProd_rvs(law, size, rng)

\* law.ppf(u)
Law_ppf(law, u) ==
  IF "ppf" \notin Defines(law.kind) THEN ProbDist_ppf(law, u)
  ELSE CASE law.kind = "Normal" -> Normal_ppf(law, u)
         [] law.kind = "Dirac" -> Dirac_ppf(law, u)
         [] law.kind = "LinearD" -> TransformedDist_ppf(law, u)
         [] law.kind = "IndepProd" -> IndepProd_ppf(law, u)

\* -------------------------------------------------- Cond and StructDist

\* A structured array of n records: fields lists the field names in the
\* order of its dtype, data[f] holds the n values of field f.  written is
\* the set of fields assigned since np.empty made the array (for an array a
\* caller passes in: all of them).
RecArr(fields, n, data, written) ==
  [kind |-> "recarray", fields |-> fields, n |-> n, data |-> data, written |-> written]
\* x[f]
Field(x, f, dtype) ==
  IF \E i \in 1..Len(x.fields) : x.fields[i] = f
  THEN Ok(Nd1(dtype, x.data[f]))
  ELSE Fail("ValueError: no field of name")

\* the function of a Cond: lambda x: Normal(loc=x[field])
NormalAt(field) == [fn |-> "NormalAt", field |-> field]
\* Cond(law, dim=d, dtype)
Cond(law, d, dtype) == [kind |-> "Cond", law |-> law, dim |-> d, dtype |-> dtype]
\* Cond.__call__(self, x): self.law(x)
Cond_call(self, x) ==
  LET loc == Field(x, self.law.field, "float64")
  IN  IF loc.err # NoErr THEN loc
      ELSE Ok(Normal(loc.val, Nd0("float64", Fl(One))))
\* callable(law)
Callable(law) == "__call__" \in Defines(law.kind)

\* the field names in ascending order (sorted(laws.keys()))
KeyOrder == <<"mu", "tau">>
KeyRank(key) == CHOOSE r \in 1..Len(KeyOrder) : KeyOrder[r] = key
\* the items of a dict sorted by key
RECURSIVE SortedItems(_)
SortedItems(items) ==
  IF items = <<>> THEN <<>>
  ELSE LET m == CHOOSE i \in 1..Len(items) :
                  \A j \in 1..Len(items) : KeyRank(items[i][1]) <= KeyRank(items[j][1])
       IN  <<items[m]>> \o SortedItems([j \in 1..(Len(items) - 1) |->
                                          IF j < m THEN items[j] ELSE items[j + 1]])

RecdistErr == "ValueError: recdist class requires a dict or an ordered dict to be instantiated"

\* the entry of StructDist.dtype for one field
FieldType(key, law) ==
  IF Law_dim(law) = 1 THEN <<key, Law_dtype(law)>>
  ELSE <<key, Law_dtype(law), Law_dim(law)>>

\* a variant whose dtype lists the fields in the order of the argument
StructDistInit_DtypeFromArg(laws) ==
  LET items == IF laws.type = "OrderedDict" THEN laws.items ELSE SortedItems(laws.items)
  IN  IF laws.type \notin {"OrderedDict", "dict"} THEN [err |-> RecdistErr, self |-> NoneVal]
      ELSE [err |-> NoErr,
            self |-> [kind |-> "StructDist", laws |-> items,
                      dtype |-> [i \in 1..Len(laws.items) |->
                                   FieldType(laws.items[i][1], laws.items[i][2])]]]

\* StructDist.__init__(self, laws): laws.type is the class of the argument,
\* laws.items its (key, law) pairs in insertion order
StructDistInit(laws) ==
  LET items == IF laws.type = "OrderedDict" THEN laws.items ELSE SortedItems(laws.items)
  IN  IF laws.type \notin {"OrderedDict", "dict"} THEN [err |-> RecdistErr, self |-> NoneVal]
      ELSE [err |-> NoErr,
            self |-> [kind |-> "StructDist", laws |-> items,
                      dtype |-> [i \in 1..Len(items) |-> FieldType(items[i][1], items[i][2])]]]

\* the field names of self.dtype, and the dtype of the field named par
FieldNames(self) == [i \in 1..Len(self.dtype) |-> self.dtype[i][1]]
FieldDtype(self, par) ==
  (CHOOSE t \in {self.dtype[i] : i \in 1..Len(self.dtype)} : t[1] = par)[2]

\* a Cond called on an array of zeros in place of the argument
Resolve_OnZeros(law, arg) ==
  IF Callable(law)
  THEN Cond_call(law, [arg EXCEPT !.data = [f \in DOMAIN arg.data |-> [n \in 1..arg.n |-> Fl(Zero)]]])
  ELSE Ok(law)

\* cond_law = law(arg) if callable(law) else law
Resolve(law, arg) == IF Callable(law) THEN Cond_call(law, arg) ELSE Ok(law)

\* StructDist.logpdf(self, theta) from field i on, l the sum so far
RECURSIVE StructDist_logpdf_from(_, _, _, _)
StructDist_logpdf_from(self, theta, i, l) ==
  IF i > Len(self.laws) THEN Ok(l)
  ELSE LET par == self.laws[i][1]
           cond_law == Resolve(self.laws[i][2], theta)
           x == Field(theta, par, FieldDtype(self, par))
           term == Law_logpdf(cond_law.val, x.val)
       IN  IF cond_law.err # NoErr THEN cond_law
           ELSE IF x.err # NoErr THEN x
           ELSE IF term.err # NoErr THEN term
           ELSE IF ~Compatible(l, term.val) THEN Fail(BroadcastErr)
           ELSE StructDist_logpdf_from(self, theta, i + 1, Map2(FAdd, l, term.val, "float64"))

\* l = 0.; for par, law in self.laws.items(): l += ...; return l
StructDist_logpdf(self, theta) ==
  StructDist_logpdf_from(self, theta, 1, Nd0("float64", Fl(Zero)))

\* np.empty(size, dtype=self.dtype): the content is whatever the memory
\* held, garbage[f] for the entries of field f
StructDist_empty(self, size, garbage) ==
  RecArr(FieldNames(self), size,
         [f \in {self.dtype[i][1] : i \in 1..Len(self.dtype)} |-> [n \in 1..size |-> garbage[f]]],
         {})

\* the loop taken from the last field to the first
LoopItem_Reversed(self, i) == self.laws[Len(self.laws) + 1 - i]

\* the field of the i-th iteration of the loop over self.laws.items()
LoopItem(self, i) == self.laws[i]

\* One iteration of the loop of StructDist.rvs, on field i:
\* cond_law = law(out) if callable(law) else law; out[par] = cond_law.rvs(size=size).
\* called is the argument the Cond's function was called on, NoneVal if none.
StructDist_rvs_iter(self, out, i, size, rng) ==
  LET par == LoopItem(self, i)[1]
      law == LoopItem(self, i)[2]
      cond_law == Resolve(law, out)
      called == IF Callable(law) THEN out ELSE NoneVal
      draw == Law_rvs(cond_law.val, Size(size), rng)
      fits == draw.val.ndim = 0 \/ (draw.val.ndim = 1 /\ Len0(draw.val) \in {1, size})
      vals == [n \in 1..size |-> El(draw.val, n)]
  IN  IF cond_law.err # NoErr
      THEN [err |-> cond_law.err, out |-> out, rng |-> rng, called |-> called, drawn |-> NoneVal]
      ELSE IF draw.err # NoErr
      THEN [err |-> draw.err, out |-> out, rng |-> draw.rng, called |-> called, drawn |-> NoneVal]
      ELSE IF ~fits
      THEN [err |-> BroadcastErr, out |-> out, rng |-> draw.rng, called |-> called, drawn |-> draw.val]
      ELSE [err |-> NoErr,
            out |-> [out EXCEPT !.data[par] = vals, !.written = @ \cup {par}],
            rng |-> draw.rng, called |-> called, drawn |-> draw.val]

\* StructDist.ppf(self, theta): its first statement reads size, which is
\* neither a parameter, nor a local, nor a module-level name; the body has
\* no return statement
StructDist_ppf(self, theta) ==
  LET unbound == {"size"} \ (ModuleGlobals \cup {"self", "theta", "out", "par", "law", "cond_law"})
  IN  IF unbound # {} THEN Fail("NameError") ELSE Ok(NoneVal)

\* ------------------------------------------------------------- inputs

\* the largest number of mixture weights per row
MaxK == 2

WeightVals == {Zero, Rat(1, 2), One}
PkArgs ==
  {Weights(0, <<<<w>>>>) : w \in WeightVals}
    \cup UNION {{Weights(1, <<v>>) : v \in [1..k -> WeightVals]} : k \in 1..MaxK}
    \cup UNION {{Weights(2, <<v, w>>) : v, w \in [1..k -> WeightVals]} : k \in 1..MaxK}
ComponentArgs == UNION {[1..n -> {"A", "B"}] : n \in 0..(MaxK + 1)}

\* the largest number of per-entity rows of an instance
MaxN == 2

Dims == {1, 2}
Scales(d) == {Scalar(One), Scalar(R(2)), Vector([j \in 1..d |-> One]),
              Vector([j \in 1..d |-> IF j = d THEN R(2) ELSE One])}

LocRows(d) == IF d = 1 THEN {<<Zero>>, <<One>>}
              ELSE {<<Zero, Zero>>, <<One, R(2)>>}

\* covariance entries offered to the constructor: positive definite ones,
\* one that is not positive definite, and (d = 2) a non-symmetric one whose
\* lower triangle is that of the identity (cov=None gives identities)
CovMats(d) ==
  IF d = 1 THEN {<<<<One>>>>, <<<<R(4)>>>>, <<<<Zero>>>>}
  ELSE {<<<<R(4), R(2)>>, <<R(2), R(2)>>>>,
        <<<<One, R(2)>>, <<R(2), One>>>>,
        <<<<One, R(7)>>, <<Zero, One>>>>}

CovArgs(d, n) ==
  {NoCov} \cup {Arr(2, <<M>>) : M \in CovMats(d)}
          \cup {Arr(3, c) : c \in [1..n -> CovMats(d)]}

\* rows of standard normal noise, of observations, of quantile levels
ZRows(d) == IF d = 1 THEN {<<Zero>>, <<One>>} ELSE {<<Zero, One>>, <<One, One>>}
XRows(d) == IF d = 1 THEN {<<Zero>>, <<R(2)>>} ELSE {<<Zero, Zero>>, <<R(2), One>>}
URows(du) == IF du = 1 THEN {<<"1/2">>, <<"Phi(1)">>}
             ELSE {<<"1/2", "Phi(1)">>, <<"Phi(-1)", "Phi(1)">>}
SigMats(d) == IF d = 1 THEN {<<<<One>>>>, <<<<R(2)>>>>}
              ELSE {Eye(2), <<<<R(2), Zero>>, <<Zero, One>>>>}

\* a request may exceed the rows of the instance by one
MaxRows == MaxN + 1
Sizes == {NoSize} \cup {Size(n) : n \in 0..MaxRows}

\* the univariate laws offered to the constructors and as components
Float0(q) == Nd0("float64", Fl(q))
N0 == Normal(Float0(Zero), Float0(One))
N1 == Normal(Float0(One), Float0(R(2)))

\* the component objects the names A and B of ComponentArgs stand for
ComponentLaw(name) == IF name = "A" THEN N0 ELSE N1

\* column i (1-based) of the weights, pk[..., i]: a scalar for a (k,) pk
PkColumn(pk, i) ==
  IF pk.ndim = 1 THEN Nd0("float64", Fl(pk.rows[1][i]))
  ELSE Nd1("float64", [n \in 1..Len(pk.rows) |-> Fl(pk.rows[n][i])])

\* sp.special.logsumexp of one row: terms at minus infinity add nothing;
\* several finite terms stay a formal log-sum-exp
LogSumExp(row) ==
  LET fin == SelectSeq(row, LAMBDA v : v.t # "ninf")
  IN  IF \E j \in 1..Len(row) : row[j].t = "nan" THEN FNaN
      ELSE IF fin = <<>> THEN FNegInf
      ELSE IF Len(fin) = 1 THEN fin[1]
      ELSE [t |-> "lse", terms |-> fin]

\* Mixture.logpdf(self, x), x a scalar or a batch:
\* lpks[i] = np.log(self.pk[..., i]) + cd.logpdf(x), then logsumexp over the
\* columns of np.column_stack(lpks)
Mixture_logpdf(self, x) ==
  LET k == Len(self.components)
      ls == [i \in 1..k |-> Law_logpdf(ComponentLaw(self.components[i]), x)]
      lw == [i \in 1..k |-> Map1(FLn, PkColumn(self.pk, i), "float64")]
      N == IF \E i \in 1..k : BLen(lw[i], ls[i].val) # 1
           THEN BLen(lw[CHOOSE i \in 1..k : BLen(lw[i], ls[i].val) # 1],
                     ls[CHOOSE i \in 1..k : BLen(lw[i], ls[i].val) # 1].val)
           ELSE 1
  IN  IF \E i \in 1..k : ls[i].err # NoErr
      THEN ls[CHOOSE i \in 1..k : ls[i].err # NoErr /\ \A j \in 1..(i - 1) : ls[j].err = NoErr]
      ELSE IF \E i \in 1..k : ~Compatible(lw[i], ls[i].val) THEN Fail(BroadcastErr)
      ELSE IF \E i \in 1..k : BLen(lw[i], ls[i].val) # N
      THEN Fail("ValueError: all the input array dimensions must match")
      ELSE Ok(Nd1("float64",
                  [n \in 1..N |-> LogSumExp([i \in 1..k |-> FAdd(El(lw[i], n), El(ls[i].val, n))])]))

\* Mixture.rvs(self, size): k = Categorical(p=self.pk).rvs(size=size), then
\* every component's draw of the whole batch, then np.choose(k, xk)
Mixture_rvs(self, size, rng) ==
  LET p == IF self.pk.ndim = 1
           THEN Nd1("float64", [j \in 1..Len(self.pk.rows[1]) |-> Fl(self.pk.rows[1][j])])
           ELSE Nd2("float64", [n \in 1..Len(self.pk.rows) |->
                                  [j \in 1..Len(self.pk.rows[n]) |-> Fl(self.pk.rows[n][j])]])
      kr == Categorical_rvs(Categorical(p), size, rng)
      xk == DrawEach([i \in 1..Len(self.components) |-> ComponentLaw(self.components[i])],
                     size, kr.rng)
      last == IF xk = <<>> THEN kr.rng ELSE xk[Len(xk)].rng
      N == Len0(kr.val)
  IN  IF kr.err # NoErr THEN kr
      ELSE IF xk # <<>> /\ xk[Len(xk)].err # NoErr THEN xk[Len(xk)]
      ELSE IF \E n \in 1..N : Flat(kr.val)[n].q[1] >= Len(xk)
      THEN RvsFail("ValueError: invalid entry in choice array", last)
      ELSE IF \E i \in 1..Len(xk) : ~Compatible(kr.val, xk[i].val) \/ BLen(kr.val, xk[i].val) # N
      THEN RvsFail(BroadcastErr, last)
      ELSE Drew(Nd1("float64", [n \in 1..N |-> El(xk[Flat(kr.val)[n].q[1] + 1].val, n)]), last)

\* a (k,) weight vector of equal weights
EqualWeights(k) == Nd1("float64", [j \in 1..k |-> Fl(Rat(1, k))])
\* an (N, k) weight array: row i puts weight 1 on category 0 when i is odd
WeightRows(N, k) ==
  Nd2("float64", [i \in 1..N |-> [j \in 1..k |->
                    IF i % 2 = 1 THEN (IF j = 1 THEN Fl(One) ELSE Fl(Zero))
                    ELSE Fl(Rat(1, k))]])
Abstract == [kind |-> "ProbDist"]
LeafLaws ==
  {N0, N1, FlatNormal(Float0(Zero)), Abstract, DiscreteUniform(0, 2),
   Dirac(Float0(One)), MvNormal_new(<<<<Zero>>>>)}
    \cup {Dirac(Nd1("float64", [i \in 1..m |-> Fl(R(i))])) : m \in 1..MaxN}
    \cup {Categorical(EqualWeights(k)) : k \in 1..MaxK}
    \cup {Categorical(WeightRows(N, MaxK)) : N \in 1..MaxN}
\* components of IndepProd, bases of LinearD and of MixMissing
ProdLaws == {N0, N1, DiscreteUniform(0, 2), FlatNormal(Float0(Zero)), Abstract}
BaseLaws == {N0, FlatNormal(Float0(Zero)), Categorical(EqualWeights(MaxK)), Abstract}
MissBaseLaws == {N0, Dirac(Float0(One)), DiscreteUniform(0, 2),
                 Categorical(EqualWeights(MaxK)), Abstract}
SlopeVals == {Fl(R(2)), Fl(R(-1))}
PmissVals == {Fl(Rat(1, 4)), Fl(Zero)}

\* generator streams: constant and alternating raw words
MaxWords == MaxK * MaxRows + MaxRows
Streams == {[i \in 1..MaxWords |-> 0], [i \in 1..MaxWords |-> 1],
            [i \in 1..MaxWords |-> i % 2], [i \in 1..MaxWords |-> (i + 1) % 2]}

\* points: scalars and batches of floats (NaN among them) and of integers,
\* and (N, k) arrays whose rows are all zeros or count 0, 2, 4, ...
FloatVals == {Fl(Zero), Fl(One), Fl(R(2)), FNaN}
IntVals == {Fl(R(n)) : n \in (-1)..MaxK}
RowVals(k) == {[j \in 1..k |-> Fl(Zero)], [j \in 1..k |-> Fl(R(2 * (j - 1)))]}
XArgs ==
  {Nd0("float64", v) : v \in FloatVals} \cup {Nd0("int64", v) : v \in IntVals}
    \cup UNION {{Nd1("float64", s) : s \in [1..n -> FloatVals]} : n \in 1..MaxN}
    \cup UNION {{Nd1("int64", s) : s \in [1..n -> IntVals]} : n \in 1..MaxN}
    \cup UNION {UNION {{Nd2("float64", rows) : rows \in [1..n -> RowVals(k)]}
                         : k \in 1..MaxK} : n \in 1..MaxN}
\* quantile levels Phi(0) = 1/2 and Phi(1)
LevelVals == {FPhi(Zero), FPhi(One)}
LevelRows(k) == {[j \in 1..k |-> FPhi(Zero)], [j \in 1..k |-> FPhi(R(j - 1))]}
UArgs ==
  {Nd0("float64", v) : v \in LevelVals}
    \cup UNION {{Nd1("float64", s) : s \in [1..n -> LevelVals]} : n \in 1..MaxN}
    \cup UNION {UNION {{Nd2("float64", rows) : rows \in [1..n -> LevelRows(k)]}
                         : k \in 1..MaxK} : n \in 1..MaxN}

\* StructDist: the laws of the fields, and the arguments of the constructor
FieldLaws == {N0, DiscreteUniform(0, 2),
              Cond(NormalAt("mu"), 1, "float64"), Cond(NormalAt("tau"), 1, "float64")}
\* a law of dim 2, IndepProd(ProbDist(), ProbDist()): its rvs and logpdf
\* raise NotImplementedError before a value of its field is read or written
Pair == IndepProdInit(<<Abstract, Abstract>>)
KeySeqs == {<<"mu">>, <<"tau">>, <<"mu", "tau">>, <<"tau", "mu">>}
\* the fields are given laws of FieldLaws, or (no Cond among them) laws of
\* which at least one is of dim 2
LawsArgs ==
  UNION {{[type |-> t, items |-> [i \in 1..Len(ks) |-> <<ks[i], ls[i]>>]] :
            t \in {"OrderedDict", "dict", "list"},
            ls \in [1..Len(ks) -> FieldLaws]
                     \cup {m \in [1..Len(ks) -> {N0, DiscreteUniform(0, 2), Pair}] :
                             \E i \in 1..Len(ks) : m[i] = Pair}}
           : ks \in KeySeqs}
ThetaVals == {Fl(Zero), Fl(One), Fl(R(2))}
GarbageVals == {Fl(Zero), Fl(R(7))}

\* -------------------------------------------------------- the program

VARIABLES
  pc,      \* "start", then "ready" (constructed) or "failed" (constructor raised)
  ctor,    \* the arguments MvNormal(...) was called with
  inst,    \* the MvNormal instance, NoneVal before and without one
  call,    \* the method call on inst that has just returned or raised, NoCall
           \* once the caller has dropped its outcome
  ret,     \* what the last call returned, NoneVal if it raised
  err,     \* the exception of the last call (constructor included), NoErr if none
  ninv,    \* the inv() calls the last call made
  mpc,     \* Mixture: "start", then "ready" or "failed"
  mctor,   \* the arguments Mixture(...) was called with
  mix,     \* the Mixture instance, NoneVal before and without one
  merr,    \* the exception of Mixture(...), NoErr if none
  lpc,     \* a univariate law or combinator: "start", then "ready"
  lctor,   \* the constructor call that made it
  law,     \* the law, NoneVal before
  lcall,   \* the method call on law that has just returned or raised
  lres,    \* its outcome: the exception (NoErr if none) and the value
  spc,     \* StructDist: "start", "ready", "failed", or "rvs" inside rvs
  sctor,   \* the argument StructDist(...) was called with
  sd,      \* the StructDist instance, NoneVal before and without one
  scall,   \* the method call on sd that is running or has just ended
  sout,    \* the local out of the running rvs call
  sidx,    \* the iteration the loop of rvs is about to make (1-based), else 0
  trace,   \* the calls of Cond functions and the writes of fields made by
           \* the current rvs call, in order
  srng,    \* the generator's stream during the rvs call
  sres     \* the outcome of the last call on sd (constructor included)

mvnvars == <<pc, ctor, inst, call, ret, err, ninv>>
mixvars == <<mpc, mctor, mix, merr>>
lawvars == <<lpc, lctor, law, lcall, lres>>
sdvars == <<spc, sctor, sd, scall, sout, sidx, trace, srng, sres>>
vars == <<pc, ctor, inst, call, ret, err, ninv, mpc, mctor, mix, merr,
          lpc, lctor, law, lcall, lres,
          spc, sctor, sd, scall, sout, sidx, trace, srng, sres>>

NoArgs == [loc |-> <<>>, scale |-> Scalar(One), cov |-> NoCov]
Call(op, size, arg, Sigma) == [op |-> op, size |-> size, arg |-> arg, Sigma |-> Sigma]
NoCall == Call("none", NoSize, <<>>, NoCov)

Init ==
  /\ pc = "start"
  /\ ctor = NoArgs
  /\ inst = NoneVal
  /\ call = NoCall
  /\ ret = NoneVal
  /\ err = NoErr
  /\ ninv = 0
  /\ mpc = "start"
  /\ mctor = [pk |-> Weights(0, <<>>), components |-> <<>>]
  /\ mix = NoneVal
  /\ merr = NoErr
  /\ lpc = "start"
  /\ lctor = [cls |-> "none", dists |-> <<>>, k |-> 0]
  /\ law = NoneVal
  /\ lcall = [op |-> "none", size |-> NoSize, arg |-> NoneVal, rng |-> <<>>]
  /\ lres = [err |-> NoErr, val |-> NoneVal]
  /\ spc = "start"
  /\ sctor = [type |-> "none", items |-> <<>>]
  /\ sd = NoneVal
  /\ scall = [op |-> "none", size |-> 0, theta |-> NoneVal]
  /\ sout = NoneVal
  /\ sidx = 0
  /\ trace = <<>>
  /\ srng = <<>>
  /\ sres = [err |-> NoErr, val |-> NoneVal]

\* MvNormal(loc=loc, scale=scale, cov=cov) with an (n, d) mean
Construct ==
  /\ pc = "start"
  /\ \E d \in Dims, n \in 1..MaxN :
       \E scale \in Scales(d), loc \in [1..n -> LocRows(d)], cov \in CovArgs(d, n) :
         LET r == MvNormalInit(1, loc, scale, cov)
         IN  /\ ctor' = [loc |-> loc, scale |-> scale, cov |-> cov]
             /\ inst' = r.self
             /\ err' = r.err
             /\ pc' = IF r.err = NoErr THEN "ready" ELSE "failed"
  /\ UNCHANGED <<call, ret, ninv>>
  /\ UNCHANGED <<mixvars, lawvars, sdvars>>

\* the state after a method call c on the instance yielded r
Returned(c, r) ==
  /\ call' = c
  /\ inst' = r.self
  /\ ret' = r.ret
  /\ err' = r.err
  /\ ninv' = r.ninv
  /\ UNCHANGED <<pc, ctor>>
  /\ UNCHANGED <<mixvars, lawvars, sdvars>>

CallRvs ==
  /\ pc = "ready"
  /\ call = NoCall
  /\ \E size \in Sizes, rng \in [1..MaxRows -> ZRows(dim(inst))] :
       Returned(Call("rvs", size, <<>>, NoCov), rvs(inst, size, rng))

CallLogpdf ==
  /\ pc = "ready"
  /\ call = NoCall
  /\ \E n \in 0..MaxRows : \E x \in [1..n -> XRows(dim(inst))] :
       Returned(Call("logpdf", NoSize, x, NoCov), logpdf(inst, x))

CallPpf ==
  /\ pc = "ready"
  /\ call = NoCall
  /\ \E n \in 1..MaxRows, du \in 1..dim(inst) : \E u \in [1..n -> URows(du)] :
       Returned(Call("ppf", NoSize, u, NoCov), ppf(inst, u))

CallLinearTransform ==
  /\ pc = "ready"
  /\ call = NoCall
  /\ \E n \in 0..MaxRows : \E z \in [1..n -> ZRows(dim(inst))] :
       Returned(Call("linear_transform", NoSize, z, NoCov), linear_transform(inst, z))

CallPosterior ==
  /\ pc = "ready"
  /\ call = NoCall
  /\ \E n \in 1..MaxN : \E x \in [1..n -> XRows(dim(inst))] :
       \E Sigma \in {NoCov} \cup {Arr(3, S) : S \in [1..n -> SigMats(dim(inst))]} :
         Returned(Call("posterior", NoSize, x, Sigma), posterior(inst, x, Sigma, inst.id + 1))

\* the caller is done with the outcome of the call; the instance stays
Drop ==
  /\ call # NoCall
  /\ call' = NoCall
  /\ ret' = NoneVal
  /\ err' = NoErr
  /\ ninv' = 0
  /\ UNCHANGED <<pc, ctor, inst>>
  /\ UNCHANGED <<mixvars, lawvars, sdvars>>

Next ==
  \/ Construct
  \/ CallRvs
  \/ CallLogpdf
  \/ CallPpf
  \/ CallLinearTransform
  \/ CallPosterior
  \/ Drop

Spec == Init /\ [][Next]_vars

\* Mixture(pk, *components)
MixtureConstruct ==
  /\ mpc = "start"
  /\ \E pk \in PkArgs, components \in ComponentArgs :
       LET r == MixtureInit(pk, components)
       IN  /\ mctor' = [pk |-> pk, components |-> components]
           /\ mix' = r.self
           /\ merr' = r.err
           /\ mpc' = IF r.err = NoErr THEN "ready" ELSE "failed"
  /\ UNCHANGED <<mvnvars, lawvars, sdvars>>

NextMixture == MixtureConstruct

SpecMixture == Init /\ [][NextMixture]_vars

\* ------------------------------------- univariate laws and combinators

\* the constructor call that made the law: the class (or IID), the
\* component laws given, and IID's k
Ctor(cls, dists, k) == [cls |-> cls, dists |-> dists, k |-> k]
NoCtor == Ctor("none", <<>>, 0)
LawCall(op, size, arg, rng) == [op |-> op, size |-> size, arg |-> arg, rng |-> rng]
NoLawCall == LawCall("none", NoSize, NoneVal, <<>>)
NoRes == [err |-> NoErr, val |-> NoneVal]

\* the law is made by the constructor call c
Made(c, made) ==
  /\ lctor' = c
  /\ law' = made
  /\ lpc' = "ready"
  /\ UNCHANGED <<lcall, lres>>
  /\ UNCHANGED <<mvnvars, mixvars, sdvars>>

\* Normal(...), FlatNormal(...), Dirac(...), Categorical(...), ...
NewLeaf ==
  /\ lpc = "start"
  /\ \E l \in LeafLaws : Made(Ctor(l.kind, <<>>, 0), l)

\* LinearD(base_dist, a, b)
NewLinearD ==
  /\ lpc = "start"
  /\ \E base \in BaseLaws, a \in SlopeVals :
       Made(Ctor("LinearD", <<base>>, 0), LinearD(base, a, Fl(One)))

\* MixMissing(pmiss, base_dist)
NewMixMissing ==
  /\ lpc = "start"
  /\ \E base \in MissBaseLaws, pmiss \in PmissVals :
       Made(Ctor("MixMissing", <<base>>, 0), MixMissing(pmiss, base))

\* IndepProd(*dists)
NewIndepProd ==
  /\ lpc = "start"
  /\ \E d \in 0..MaxK : \E dists \in [1..d -> ProdLaws] :
       Made(Ctor("IndepProd", dists, 0), IndepProdInit(dists))

\* IID(law, k)
NewIID ==
  /\ lpc = "start"
  /\ \E l \in ProdLaws, k \in 1..MaxK : Made(Ctor("IID", <<l>>, k), IID(l, k))

\* the state after the call c on the law yielded r
LawReturned(c, r) ==
  /\ lcall' = c
  /\ lres' = [err |-> r.err, val |-> r.val]
  /\ UNCHANGED <<lpc, lctor, law>>
  /\ UNCHANGED <<mvnvars, mixvars, sdvars>>

\* the methods of MvNormal_new other than ppf are not part of this model
LawRvs ==
  /\ lpc = "ready"
  /\ lcall = NoLawCall
  /\ law.kind # "MvNormal_new"
  /\ \E size \in Sizes, rng \in Streams :
       LawReturned(LawCall("rvs", size, NoneVal, rng), Law_rvs(law, size, rng))

LawLogpdf ==
  /\ lpc = "ready"
  /\ lcall = NoLawCall
  /\ law.kind # "MvNormal_new"
  /\ \E x \in XArgs : LawReturned(LawCall("logpdf", NoSize, x, <<>>), Law_logpdf(law, x))

LawPpf ==
  /\ lpc = "ready"
  /\ lcall = NoLawCall
  /\ \E u \in UArgs : LawReturned(LawCall("ppf", NoSize, u, <<>>), Law_ppf(law, u))

\* the caller is done with the outcome of the call; the law stays
LawDrop ==
  /\ lcall # NoLawCall
  /\ lcall' = NoLawCall
  /\ lres' = NoRes
  /\ UNCHANGED <<lpc, lctor, law>>
  /\ UNCHANGED <<mvnvars, mixvars, sdvars>>

NextLaws ==
  \/ NewLeaf
  \/ NewLinearD
  \/ NewMixMissing
  \/ NewIndepProd
  \/ NewIID
  \/ LawRvs
  \/ LawLogpdf
  \/ LawPpf
  \/ LawDrop

SpecLaws == Init /\ [][NextLaws]_vars

\* ---------------------------------------------------------- StructDist

SdCall(op, size, theta) == [op |-> op, size |-> size, theta |-> theta]
NoSdCall == SdCall("none", 0, NoneVal)
Event(ev, field, arg, val) == [ev |-> ev, field |-> field, arg |-> arg, val |-> val]

\* StructDist(laws)
SdConstruct ==
  /\ spc = "start"
  /\ \E laws \in LawsArgs :
       LET r == StructDistInit(laws)
       IN  /\ sctor' = laws
           /\ sd' = r.self
           /\ sres' = [err |-> r.err, val |-> NoneVal]
           /\ spc' = IF r.err = NoErr THEN "ready" ELSE "failed"
  /\ UNCHANGED <<scall, sout, sidx, trace, srng>>
  /\ UNCHANGED <<mvnvars, mixvars, lawvars>>

\* rvs(size): out = np.empty(size, dtype=self.dtype), before the loop
SdRvsBegin ==
  /\ spc = "ready"
  /\ scall = NoSdCall
  /\ \E size \in 0..MaxN, rng \in Streams :
       \E garbage \in [{sd.dtype[i][1] : i \in 1..Len(sd.dtype)} -> GarbageVals] :
         /\ scall' = SdCall("rvs", size, NoneVal)
         /\ sout' = StructDist_empty(sd, size, garbage)
         /\ srng' = rng
  /\ sidx' = 1
  /\ trace' = <<>>
  /\ spc' = "rvs"
  /\ UNCHANGED <<sctor, sd, sres>>
  /\ UNCHANGED <<mvnvars, mixvars, lawvars>>

\* one iteration of the loop of rvs; an exception ends the call
SdRvsIter ==
  /\ spc = "rvs"
  /\ sidx <= Len(sd.laws)
  /\ LET r == StructDist_rvs_iter(sd, sout, sidx, scall.size, srng)
         par == LoopItem(sd, sidx)[1]
         calls == IF r.called = NoneVal THEN <<>>
                  ELSE <<Event("call", par, r.called, NoneVal)>>
         writes == IF r.err # NoErr THEN <<>>
                   ELSE <<Event("write", par, NoneVal, r.drawn)>>
     IN  /\ sout' = r.out
         /\ srng' = r.rng
         /\ trace' = trace \o calls \o writes
         /\ sres' = [err |-> r.err, val |-> NoneVal]
         /\ spc' = IF r.err # NoErr THEN "ready" ELSE "rvs"
         /\ sidx' = IF r.err # NoErr THEN 0 ELSE sidx + 1
  /\ UNCHANGED <<sctor, sd, scall>>
  /\ UNCHANGED <<mvnvars, mixvars, lawvars>>

\* return out
SdRvsReturn ==
  /\ spc = "rvs"
  /\ sidx > Len(sd.laws)
  /\ sres' = [err |-> NoErr, val |-> sout]
  /\ spc' = "ready"
  /\ sidx' = 0
  /\ UNCHANGED <<sctor, sd, scall, sout, trace, srng>>
  /\ UNCHANGED <<mvnvars, mixvars, lawvars>>

\* the structured points offered to logpdf and ppf: the fields of the
\* instance, n records of values from vals
Thetas(self, vals) ==
  UNION {{RecArr(FieldNames(self), n, data, {self.dtype[i][1] : i \in 1..Len(self.dtype)}) :
            data \in [{self.dtype[i][1] : i \in 1..Len(self.dtype)} -> [1..n -> vals]]}
           : n \in 1..MaxN}

SdLogpdf ==
  /\ spc = "ready"
  /\ scall = NoSdCall
  /\ \E theta \in Thetas(sd, ThetaVals) :
       /\ scall' = SdCall("logpdf", 0, theta)
       /\ sres' = StructDist_logpdf(sd, theta)
  /\ UNCHANGED <<spc, sctor, sd, sout, sidx, trace, srng>>
  /\ UNCHANGED <<mvnvars, mixvars, lawvars>>

SdPpf ==
  /\ spc = "ready"
  /\ scall = NoSdCall
  /\ \E theta \in Thetas(sd, LevelVals) :
       /\ scall' = SdCall("ppf", 0, theta)
       /\ sres' = StructDist_ppf(sd, theta)
  /\ UNCHANGED <<spc, sctor, sd, sout, sidx, trace, srng>>
  /\ UNCHANGED <<mvnvars, mixvars, lawvars>>

\* the caller is done with the outcome of the call; the instance stays
SdDrop ==
  /\ spc = "ready"
  /\ scall # NoSdCall
  /\ scall' = NoSdCall
  /\ sres' = NoRes
  /\ sout' = NoneVal
  /\ trace' = <<>>
  /\ srng' = <<>>
  /\ UNCHANGED <<spc, sctor, sd, sidx>>
  /\ UNCHANGED <<mvnvars, mixvars, lawvars>>

NextStruct ==
  \/ SdConstruct
  \/ SdRvsBegin
  \/ SdRvsIter
  \/ SdRvsReturn
  \/ SdLogpdf
  \/ SdPpf
  \/ SdDrop

SpecStruct == Init /\ [][NextStruct]_vars

\* ------------------------------------------------------------- claims

\* the instance has as many mean rows as covariance entries
SameRows == pc = "ready" /\ Len(inst.loc) = number(inst)
RvsCalled == pc = "ready" /\ call.op = "rvs"
LogpdfCalled == pc = "ready" /\ call.op = "logpdf"
Raised(e) == err = e /\ ret = NoneVal

\* C1: on an instance with N mean rows and N covariance entries, rvs(size)
\* with size > N and logpdf(x) with more than N rows raise the capacity
\* violation (AssertionError) and return no value: no truncation to N
\* entries, no wrap-around.
C1_CapacityViolationRaises ==
  SameRows =>
    /\ (RvsCalled /\ ~call.size.none /\ call.size.n > number(inst))
         => Raised("AssertionError")
    /\ (LogpdfCalled /\ Len(call.arg) > number(inst))
         => Raised("AssertionError")

C1_Witness ==
  /\ SameRows /\ RvsCalled
  /\ ~call.size.none /\ call.size.n > number(inst)
  /\ Raised("AssertionError")

\* mean row i plus scale times the factor L applied to the noise row zrow
DrawWith(i, zrow, L) ==
  [j \in 1..dim(inst) |->
     RealAdd(RealOfRat(inst.loc[i][j]),
             RealScale(ScaleAt(inst.scale, j),
                       RealSum([k \in 1..dim(inst) |-> RealScale(zrow[k], L[j][k])])))]

\* the draw of entry i from noise row zrow, written out from the instance's
\* fields: mean row i, the cached factor of entry i
DrawOf(i, zrow) == DrawWith(i, zrow, inst.L_list[i])

\* ret holds exactly m draws, draw i built from entries i of loc and L_list
ReturnsDraws(m) ==
  /\ err = NoErr
  /\ ret.kind = "array"
  /\ Len(ret.rows) = m
  /\ \A i \in 1..m : \E zrow \in ZRows(dim(inst)) : ret.rows[i] = DrawOf(i, zrow)

\* C2: rvs() with size omitted completes and returns exactly N draws, draw i
\* from mean row i and factor i; rvs(size=m), 1 <= m <= N, returns exactly
\* m draws built from entries 0..m-1.
C2_RvsDefaultAndExplicitSize ==
  (SameRows /\ RvsCalled) =>
    /\ call.size.none => ReturnsDraws(number(inst))
    /\ (~call.size.none /\ 1 <= call.size.n /\ call.size.n <= number(inst))
         => ReturnsDraws(call.size.n)

\* the part of C2 about an explicit size
C2_ExplicitSizeOnly ==
  (SameRows /\ RvsCalled /\ ~call.size.none /\ 1 <= call.size.n /\ call.size.n <= number(inst))
    => ReturnsDraws(call.size.n)

\* the lower triangle of a covariance entry, completed symmetrically: L L^T
LowerSym(A) == [j \in 1..Len(A) |-> [k \in 1..Len(A) |-> IF k <= j THEN A[j][k] ELSE A[k][j]]]

RECURSIVE ProdSeq(_)
ProdSeq(q) == IF q = <<>> THEN One ELSE RMul(Head(q), ProdSeq(Tail(q)))

\* The log-density of row xrow under entry i: quad is the sum of squares of
\* the whitened residual solve(L_i, (xrow - loc_i) / scale), halfln the
\* argument of the log-determinant term (dim * ln(scale), or the sum of the
\* ln(scale_j), plus halflogdetcor[i]); the value is
\* -quad/2 - (1/2) ln(halfln) - dim * HALFLOG2PI.
DensityOf(i, xrow) ==
  LET v == [j \in 1..dim(inst) |->
              RDiv(RSub(xrow[j], inst.loc[i][j]), ScaleAt(inst.scale, j))]
      P == inv(LowerSym(inst.cov.a[i])).M
      sq == [j \in 1..dim(inst) |-> RMul(ScaleAt(inst.scale, j), ScaleAt(inst.scale, j))]
  IN  [quad |-> SumSeq([j \in 1..dim(inst) |-> RMul(v[j], MatVec(P, v)[j])]),
       halfln |-> RMul(ProdSeq(sq), inst.halflogdetcor[i].halfln),
       dim |-> dim(inst)]

\* C3: logpdf(x) for x with M rows, 1 <= M <= N, completes and returns
\* exactly M values, value i computed from x[i], mean row i, the scale and
\* the cached factor and log-determinant term of entry i.
C3_LogpdfPerRow ==
  (SameRows /\ LogpdfCalled /\ 1 <= Len(call.arg) /\ Len(call.arg) <= number(inst)) =>
    /\ err = NoErr
    /\ ret.kind = "array"
    /\ Len(ret.rows) = Len(call.arg)
    /\ \A i \in 1..Len(call.arg) : ret.rows[i] = DensityOf(i, call.arg[i])

\* C4: Mixture(pk, *components) succeeds whenever the number of components
\* equals the length of the last axis of pk, and raises the ValueError of
\* the size check at construction whenever the two differ.
C4_MixtureConstruction ==
  mpc # "start" =>
    IF Len(mctor.components) = LastAxis(atleast_1d(mctor.pk))
    THEN mpc = "ready" /\ merr = NoErr /\ mix.components = mctor.components
    ELSE mpc = "failed" /\ merr = SizeErr

PpfNoise(urow) ==
  [k \in 1..dim(inst) |-> IF k <= Len(urow) THEN norm_ppf(urow[k]) ELSE Zero]

\* the constructor was given the one symmetric positive-definite matrix,
\* stacked once per mean row
StackedShared ==
  /\ pc # "start" /\ ctor.cov.ndim = 3
  /\ Len(ctor.cov.a) = Len(ctor.loc)
  /\ \A i \in 1..Len(ctor.cov.a) : ctor.cov.a[i] = ctor.cov.a[1]
  /\ IsSPD(ctor.cov.a[1])

GivenCov == IF ctor.cov.ndim = 3 THEN ctor.cov.a
            ELSE IF ctor.cov.ndim = 2 THEN <<ctor.cov.a[1]>>
            ELSE <<>>

\* C6: construction fails whenever some covariance entry, at any index, is
\* not symmetric positive-definite; no instance holds such an entry.
C6_EveryCovarianceSPD ==
  /\ (pc # "start" /\ \E i \in 1..Len(GivenCov) : ~IsSPD(GivenCov[i])) => pc = "failed"
  /\ pc = "ready" => \A i \in 1..number(inst) : IsSPD(inst.cov.a[i])

\* what the constructor does enforce: the lower triangle of every entry,
\* completed symmetrically, is positive definite
C6_LowerTrianglePD ==
  /\ (pc # "start" /\ \E i \in 1..Len(GivenCov) : ~IsSPD(LowerSym(GivenCov[i])))
       => pc = "failed"
  /\ pc = "ready" => \A i \in 1..number(inst) : IsSPD(LowerSym(inst.cov.a[i]))

PosteriorCalled == pc = "ready" /\ call.op = "posterior"
\* scale equals 1: the scalar 1, or an array of ones
ScaleEqualsOne(scale) == \A j \in 1..Len(scale.v) : scale.v[j] = One

C8_ScalarPosterior ==
  (PosteriorCalled /\ dim(inst) = 1 /\ number(inst) = 1 /\ ScaleEqualsOne(inst.scale)
     /\ Len(call.arg) = 1) =>
    LET m == inst.loc[1][1]
        v == inst.cov.a[1][1][1]
        x == call.arg[1][1]
        s == IF call.Sigma = NoCov THEN One ELSE call.Sigma.a[1][1][1]
        prec == RAdd(RInv(v), RInv(s))
    IN  /\ err = NoErr
        /\ ret.kind = "MvNormal"
        /\ ret.scale = Scalar(One)
        /\ ret.cov = Arr(3, <<<<<<RInv(prec)>>>>>>)
        /\ ret.loc = <<<<RDiv(RAdd(RDiv(m, v), RDiv(x, s)), prec)>>>>
        /\ (m = Zero /\ v = One /\ x = R(2) /\ s = One) =>
             (ret.loc = <<<<One>>>> /\ ret.cov.a = <<<<<<Rat(1, 2)>>>>>>)

C8_Witness ==
  /\ PosteriorCalled /\ dim(inst) = 1 /\ number(inst) = 1 /\ inst.scale = Scalar(One)
  /\ inst.loc = <<<<Zero>>>> /\ inst.cov.a = <<<<<<One>>>>>>
  /\ call.arg = <<<<R(2)>>>> /\ call.Sigma = Arr(3, <<<<<<One>>>>>>)
  /\ err = NoErr /\ ret.loc = <<<<One>>>> /\ ret.cov.a = <<<<<<Rat(1, 2)>>>>>>

\* the posterior of the call with observation row j replaced by row
WithRow(j, row) == posterior(inst, [call.arg EXCEPT ![j] = row], call.Sigma, inst.id + 1)
\* the posterior of the call on a prior whose mean row j is replaced by row
WithPriorRow(j, row) ==
  posterior([inst EXCEPT !.loc[j] = row], call.arg, call.Sigma, inst.id + 1)

SameEntry(r, i) ==
  r.err = NoErr /\ r.ret.loc[i] = ret.loc[i] /\ r.ret.cov.a[i] = ret.cov.a[i]

\* C9: for a batch of N >= 2 entries, entry i of the posterior depends only
\* on entry i's prior, Sigma[i] and the observation of entry i: another
\* entry's observation row or prior mean can be changed without changing it.
C9_PerEntryPosterior ==
  (PosteriorCalled /\ err = NoErr /\ Len(call.arg) >= 2) =>
    \A i, j \in 1..Len(call.arg) :
      i # j =>
        /\ \A row \in XRows(dim(inst)) : SameEntry(WithRow(j, row), i)
        /\ \A row \in LocRows(dim(inst)) : SameEntry(WithPriorRow(j, row), i)

\* the part of C9 about the other entries' prior means
C9_PriorOfOthersOnly ==
  (PosteriorCalled /\ err = NoErr /\ Len(call.arg) >= 2) =>
    \A i, j \in 1..Len(call.arg) :
      i # j => \A row \in LocRows(dim(inst)) : SameEntry(WithPriorRow(j, row), i)

\* C10: once constructed, no call of rvs, logpdf, ppf, linear_transform or
\* posterior changes loc, scale, cov, L_list or halflogdetcor, and what
\* posterior returns is another object than the prior.
C10_ImmutableAfterConstruction ==
  [][pc = "ready" =>
       /\ inst' = inst
       /\ ret'.kind = "MvNormal" => ret'.id # inst.id]_vars

C10_Witness ==
  /\ PosteriorCalled /\ err = NoErr
  /\ ret.kind = "MvNormal" /\ ret.id # inst.id
  /\ ret.loc # inst.loc

\* the field names in the order of the instance's laws, the position of a
\* field in it, and the fields written by the current rvs call, in order
SdKeys == [i \in 1..Len(sd.laws) |-> sd.laws[i][1]]
IndexOfKey(f) == CHOOSE i \in 1..Len(sd.laws) : sd.laws[i][1] = f
Writes == SelectSeq(trace, LAMBDA e : e.ev = "write")
SdReturned(op) == spc = "ready" /\ scall.op = op /\ sres.err = NoErr

\* C11: rvs(size) visits the fields in construction order.  A Cond's
\* function is called on out when exactly the fields before its own have
\* been written, and they hold the draws this call made for them; every
\* write is a draw of exactly size entries, the fields are written in
\* order, at most once, and all of them once rvs has returned.
C11_StructRvsOrder ==
  scall.op = "rvs" =>
    /\ \A p \in 1..Len(trace) :
         trace[p].ev = "call" =>
           LET i == IndexOfKey(trace[p].field)
           IN  /\ trace[p].arg.written = {SdKeys[j] : j \in 1..(i - 1)}
               /\ \A j \in 1..(i - 1) :
                    \E q \in 1..(p - 1) :
                      /\ trace[q].ev = "write"
                      /\ trace[q].field = SdKeys[j]
                      /\ trace[p].arg.data[SdKeys[j]] = Flat(trace[q].val)
    /\ Len(Writes) <= Len(sd.laws)
    /\ \A w \in 1..Len(Writes) :
         /\ Writes[w].field = SdKeys[w]
         /\ Writes[w].val.ndim = 1
         /\ Len0(Writes[w].val) = scall.size
    /\ SdReturned("rvs") =>
         /\ Len(Writes) = Len(sd.laws)
         /\ sres.val.written = {SdKeys[j] : j \in 1..Len(sd.laws)}
         /\ \A w \in 1..Len(Writes) : sres.val.data[SdKeys[w]] = Flat(Writes[w].val)

\* rvs(size=2) has returned on the chain mu ~ Normal, tau | mu ~ Cond: the
\* Cond's function was called once, after the write of mu
C11_Witness ==
  /\ SdReturned("rvs")
  /\ scall.size = 2
  /\ SdKeys = <<"mu", "tau">>
  /\ sd.laws[2][2] = Cond(NormalAt("mu"), 1, "float64")
  /\ \E p \in 1..Len(trace) :
       /\ trace[p].ev = "call"
       /\ trace[p].field = "tau"
       /\ trace[p].arg.written = {"mu"}

RECURSIVE FSumSeq(_)
FSumSeq(s) == IF s = <<>> THEN Fl(Zero) ELSE FAdd(Head(s), FSumSeq(Tail(s)))

\* the law of field i given the point theta: the law itself, or for a Cond
\* the law its function gives on theta
LawGiven(i, theta) ==
  LET fl == sd.laws[i][2]
  IN  IF fl.kind = "Cond"
      THEN Normal(Nd1("float64", theta.data[fl.law.field]), Float0(One))
      ELSE fl
\* the log-density of field i's law at record n of theta
TermAt(i, theta, n) ==
  Law_logpdf(LawGiven(i, theta),
             Nd1(FieldDtype(sd, SdKeys[i]), theta.data[SdKeys[i]])).val.rows[n][1]
\* every field a Cond's function reads is a field of the instance
Resolvable ==
  \A i \in 1..Len(sd.laws) :
    sd.laws[i][2].kind = "Cond" =>
      \E j \in 1..Len(sd.laws) : SdKeys[j] = sd.laws[i][2].law.field
\* every field is univariate (its entry of dtype carries no dim)
Univariate == \A i \in 1..Len(sd.dtype) : Len(sd.dtype[i]) = 2
\* the chain mu ~ N(0, 1), tau | mu ~ Cond(lambda x: Normal(loc=x['mu']))
IsChain ==
  /\ SdKeys = <<"mu", "tau">>
  /\ sd.laws[1][2] = N0
  /\ sd.laws[2][2] = Cond(NormalAt("mu"), 1, "float64")
\* -mu^2 / 2 - (tau - mu)^2 / 2 - 2 HALFLOG2PI
ChainDensity(mu, tau) ==
  FLog(RNeg(RDiv(RAdd(RMul(mu.q, mu.q),
                      RMul(RSub(tau.q, mu.q), RSub(tau.q, mu.q))), R(2))), 2, One)

\* C12: logpdf(theta) returns, for every record of theta, the sum over the
\* (univariate) fields of the field law's log-density at theta[field], a Cond being
\* resolved on the input theta; on the chain mu ~ N(0, 1), tau | mu ~
\* N(mu, 1) this is N(0, 1).logpdf(mu) + N(mu, 1).logpdf(tau).
C12_StructLogpdfChainRule ==
  (spc = "ready" /\ scall.op = "logpdf" /\ Resolvable /\ Univariate) =>
    /\ sres.err = NoErr
    /\ sres.val.ndim = 1
    /\ Len0(sres.val) = scall.theta.n
    /\ \A n \in 1..scall.theta.n :
         /\ sres.val.rows[n][1] =
              FSumSeq([i \in 1..Len(sd.laws) |-> TermAt(i, scall.theta, n)])
         /\ IsChain =>
              sres.val.rows[n][1] =
                ChainDensity(scall.theta.data["mu"][n], scall.theta.data["tau"][n])

\* logpdf has returned on the chain, at a point with mu = 1 and tau = 2
C12_Witness ==
  /\ SdReturned("logpdf")
  /\ IsChain
  /\ scall.theta.data["mu"][1] = Fl(One)
  /\ scall.theta.data["tau"][1] = Fl(R(2))
  /\ sres.val.rows[1][1] = FLog(R(-1), 2, One)

\* every field law implements ppf (a Cond's function returns a Normal), and
\* every Cond's function reads a field earlier in the order
AllImplementPpf ==
  \A i \in 1..Len(sd.laws) :
    \/ "ppf" \in Defines(sd.laws[i][2].kind)
    \/ /\ sd.laws[i][2].kind = "Cond"
       /\ \E j \in 1..(i - 1) : SdKeys[j] = sd.laws[i][2].law.field

\* C13: on a StructDist whose field laws all implement ppf, ppf(theta)
\* completes without error and returns a structured array with one record
\* per record of theta, each field holding its law's ppf of theta[field],
\* a Cond being resolved on the fields of the output computed before it.
C13_StructPpf ==
  (spc = "ready" /\ scall.op = "ppf" /\ AllImplementPpf) =>
    /\ sres.err = NoErr
    /\ sres.val.kind = "recarray"
    /\ sres.val.n = scall.theta.n
    /\ \A i \in 1..Len(sd.laws) :
         sres.val.data[SdKeys[i]] =
           Flat(Law_ppf(LawGiven(i, sres.val),
                        Nd1("float64", scall.theta.data[SdKeys[i]])).val)

\* the classes of laws without a quantile function
NoPpfKinds == {"ProbDist", "FlatNormal", "Categorical", "DiscreteUniform",
               "Mixture", "MixMissing", "MvNormal_new"}
PpfCalled == lpc = "ready" /\ lcall.op = "ppf"
LawRaised(e) == lres.err = e /\ lres.val = NoneVal
\* the first component of an IndepProd without a quantile function, 0 if none
FirstNoPpf ==
  LET bad == {i \in 1..Len(law.dists) : law.dists[i].kind \in NoPpfKinds}
  IN  IF bad = {} THEN 0 ELSE CHOOSE i \in bad : \A j \in bad : i <= j

\* C14: ppf on a law of a class without a quantile function raises
\* NotImplementedError and returns nothing; a LinearD over such a law, and
\* an IndepProd whose levels u reach such a component, raise that same
\* NotImplementedError.
C14_PpfNotImplemented ==
  PpfCalled =>
    /\ law.kind \in NoPpfKinds => LawRaised(NotImplementedErr)
    /\ (law.kind = "LinearD" /\ law.base_dist.kind \in NoPpfKinds)
         => LawRaised(NotImplementedErr)
    /\ (law.kind = "IndepProd" /\ FirstNoPpf # 0
          /\ lcall.arg.ndim >= 1 /\ LastAxisLen(lcall.arg) >= FirstNoPpf)
         => LawRaised(NotImplementedErr)

\* ppf has raised NotImplementedError on IndepProd(Normal(), FlatNormal())
\* with an (N, 2) array of levels
C14_Witness ==
  /\ PpfCalled
  /\ law.kind = "IndepProd"
  /\ Len(law.dists) = 2
  /\ law.dists[1] = N0
  /\ law.dists[2].kind = "FlatNormal"
  /\ lcall.arg.ndim = 2
  /\ LawRaised(NotImplementedErr)

LogpdfOn(kind) == lpc = "ready" /\ lcall.op = "logpdf" /\ law.kind = kind
\* d_i.logpdf at coordinate i of the vector x, and at column i of the batch x
AtEntry(i, x) == Law_logpdf(law.dists[i], Nd0(x.dtype, x.rows[i][1]))
AtColumn(i, x) == Law_logpdf(law.dists[i], Nd1(x.dtype, [n \in 1..Len(x.rows) |-> x.rows[n][i]]))

\* C15: IndepProd(d_1, ..., d_k).logpdf(x) is the sum over i of d_i.logpdf
\* at coordinate i of x: one value for a single vector x, and for an (N, k)
\* batch N values, value n being the sum over i of d_i.logpdf(x[n, i]).
C15_IndepProdLogpdfSum ==
  (LogpdfOn("IndepProd") /\ Len(law.dists) >= 1) =>
    LET x == lcall.arg
        k == Len(law.dists)
    IN  /\ (x.ndim = 1 /\ Len(x.rows) >= k /\ \A i \in 1..k : AtEntry(i, x).err = NoErr) =>
              /\ lres.err = NoErr
              /\ lres.val.ndim = 0
              /\ lres.val.rows[1][1] = FSumSeq([i \in 1..k |-> AtEntry(i, x).val.rows[1][1]])
        /\ (x.ndim = 2 /\ Len(x.rows[1]) >= k /\ \A i \in 1..k : AtColumn(i, x).err = NoErr) =>
              /\ lres.err = NoErr
              /\ lres.val.ndim = 1
              /\ Len0(lres.val) = Len(x.rows)
              /\ \A n \in 1..Len(x.rows) :
                   lres.val.rows[n][1] = FSumSeq([i \in 1..k |-> AtColumn(i, x).val.rows[n][1]])

\* IndepProd(N(0, 1), N(1, 4)).logpdf of a batch with the row [0, 2] has
\* returned -HALFLOG2PI + (-1/8 - ln 2 - HALFLOG2PI) for it
C15_Witness ==
  /\ LogpdfOn("IndepProd")
  /\ law.dists = <<N0, N1>>
  /\ lcall.arg.ndim = 2
  /\ lcall.arg.rows[1] = <<Fl(Zero), Fl(R(2))>>
  /\ lres.err = NoErr
  /\ lres.val.rows[1][1] = FLog(Rat(-1, 8), 2, Rat(1, 2))

\* Mixture([1., 0.], A, B) has been called
DegenerateMixtureAsked ==
  /\ mpc # "start"
  /\ atleast_1d(mctor.pk) = Weights(1, <<<<One, Zero>>>>)
  /\ mctor.components = <<"A", "B">>
\* batches of float points
FloatBatches == UNION {{Nd1("float64", s) : s \in [1..n -> FloatVals]} : n \in 1..MaxN}

\* C16: Mixture([1, 0], A, B) behaves as A: the instance exists, logpdf(x)
\* equals A.logpdf(x) at every x, and rvs(size) returns for every entry the
\* value A drew for that entry (A draws after the component indices).
C16_DegenerateMixtureIsFirst ==
  DegenerateMixtureAsked =>
    /\ mpc = "ready"
    /\ \A x \in FloatBatches :
         /\ Mixture_logpdf(mix, x).err = NoErr
         /\ Flat(Mixture_logpdf(mix, x).val) = Flat(Law_logpdf(ComponentLaw("A"), x).val)
    /\ \A n \in 1..MaxN : \A rng \in Streams :
         /\ Mixture_rvs(mix, Size(n), rng).err = NoErr
         /\ Mixture_rvs(mix, Size(n), rng).val
              = Law_rvs(ComponentLaw("A"), Size(n), Rest(rng, n)).val

\* logpdf has been called on a MixMissing law with a batch x (one axis) on
\* which the base law's logpdf returns
MissLogpdfOnBatch ==
  /\ LogpdfOn("MixMissing")
  /\ lcall.arg.ndim = 1
  /\ Law_logpdf(law.base_dist, lcall.arg).err = NoErr
\* the base law's log-density at entry i of the batch, taken alone
BaseAt(i) == Law_logpdf(law.base_dist, Nd0(lcall.arg.dtype, lcall.arg.rows[i][1])).val.rows[1][1]

\* C17: MixMissing.logpdf(x) returns one value per entry of the batch x:
\* log(pmiss) where x[i] is NaN, whatever the base law gives at NaN, and
\* base_dist.logpdf(x[i]) + log(1 - pmiss) elsewhere.
C17_MixMissingLogpdf ==
  MissLogpdfOnBatch =>
    /\ lres.err = NoErr
    /\ lres.val.ndim = 1
    /\ Len0(lres.val) = Len0(lcall.arg)
    /\ \A i \in 1..Len0(lcall.arg) :
         lres.val.rows[i] =
           << IF FIsNaN(lcall.arg.rows[i][1]) THEN FLn(law.pmiss)
              ELSE FAdd(BaseAt(i), FLn(FSub(Fl(One), law.pmiss))) >>
\* a batch with a missing and an observed entry was scored under a Normal base
C17_Witness ==
  /\ MissLogpdfOnBatch
  /\ law.base_dist = N0
  /\ law.pmiss = Fl(Rat(1, 4))
  /\ \E i, j \in 1..Len0(lcall.arg) :
       FIsNaN(lcall.arg.rows[i][1]) /\ ~FIsNaN(lcall.arg.rows[j][1])
  /\ lres.err = NoErr

\* the point v lies in the support of the law: the atom of a Dirac with a
\* scalar loc, lo..hi-1 of a DiscreteUniform, 0..k-1 of a Categorical of k weights
InSupport(l, v) ==
  CASE l.kind = "Dirac" -> FEq(v, l.loc.rows[1][1])
    [] l.kind = "DiscreteUniform" -> FGe(v, Fl(R(l.lo))) /\ FLt(v, Fl(R(l.hi)))
    [] l.kind = "Categorical" -> FGe(v, Fl(Zero)) /\ FLt(v, Fl(R(PLen0(l.p))))
\* logpdf has been called, with a scalar or a batch of points, on a Dirac
\* with a scalar loc, a DiscreteUniform, or a Categorical of k weights (on
\* integers)
SupportedLogpdf ==
  /\ lpc = "ready"
  /\ lcall.op = "logpdf"
  /\ lcall.arg.ndim <= 1
  /\ \/ law.kind = "Dirac" /\ ~law.loc.arr
     \/ law.kind = "DiscreteUniform"
     \/ law.kind = "Categorical" /\ law.p.ndim = 1 /\ lcall.arg.dtype = "int64"

\* C18: logpdf of Dirac, DiscreteUniform and Categorical returns, and gives
\* minus infinity at every point outside the support; for a Categorical of k
\* weights these are the integers x < 0 and x >= k.
C18_OutsideSupportMinusInf ==
  SupportedLogpdf =>
    /\ lres.err = NoErr
    /\ \A i \in 1..Len0(lcall.arg) :
         ~InSupport(law, lcall.arg.rows[i][1]) => lres.val.rows[i] = <<FNegInf>>

\* the part of C18 that holds: Dirac and DiscreteUniform
C18_DiracAndUniformPart ==
  (SupportedLogpdf /\ law.kind # "Categorical") =>
    /\ lres.err = NoErr
    /\ \A i \in 1..Len0(lcall.arg) :
         ~InSupport(law, lcall.arg.rows[i][1]) => lres.val.rows[i] = <<FNegInf>>

\* the shape of an array, as the sequence of its axis lengths
ShapeOf(a) ==
  IF a.ndim = 0 THEN <<>>
  ELSE IF a.ndim = 1 THEN <<Len(a.rows)>>
  ELSE <<Len(a.rows), IF a.rows = <<>> THEN 0 ELSE Len(a.rows[1])>>
\* the shape declared for size n and dimension d
DeclaredShape(n, d) == IF d = 1 THEN <<n>> ELSE <<n, d>>
\* the laws that draw: the leaves with an rvs method, and the products of
\* at least one of them
DrawingKinds == {"Normal", "FlatNormal", "DiscreteUniform", "Dirac", "Categorical"}
Draws(l) ==
  \/ l.kind \in DrawingKinds
  \/ /\ l.kind = "IndepProd"
     /\ Len(l.dists) >= 1
     /\ \A i \in 1..Len(l.dists) : l.dists[i].kind \in DrawingKinds
\* rvs(size=n) with n >= 1 has been called on such a law
RvsWithSize ==
  /\ lpc = "ready"
  /\ lcall.op = "rvs"
  /\ ~lcall.size.none
  /\ lcall.size.n >= 1
  /\ Draws(law)

\* C19: rvs(size=n), n >= 1, returns an array of the declared shape: (n,)
\* when dim is 1 and (n, dim) otherwise, for every law that draws, Dirac
\* with an array loc and Categorical with an (N, k) weight matrix included.
C19_RvsDeclaredShape ==
  RvsWithSize =>
    /\ lres.err = NoErr
    /\ ShapeOf(lres.val) = DeclaredShape(lcall.size.n, Law_dim(law))

\* the part of C19 that holds: a scalar loc, a (k,) weight vector, and
\* products of at least two laws
C19_HoldsElsewhere ==
  (/\ RvsWithSize
   /\ law.kind = "Dirac" => ~law.loc.arr
   /\ law.kind = "Categorical" => law.p.ndim = 1
   /\ law.kind = "IndepProd" => Len(law.dists) >= 2) =>
    /\ lres.err = NoErr
    /\ ShapeOf(lres.val) = DeclaredShape(lcall.size.n, Law_dim(law))

\* a law of a discrete class
IsDiscrete(l) == l.kind \in DiscreteKinds
\* the constructor cls has returned
Built(cls) == lpc = "ready" /\ lctor.cls = cls

\* C20: IndepProd of d laws has dim = d, and dtype 'int64' if and only if
\* every component is discrete, 'float64' otherwise; IID(law, k) is the
\* IndepProd of k references to law, with dim = k and the dtype of law.
C20_IndepProdDimDtype ==
  /\ Built("IndepProd") =>
       /\ law.kind = "IndepProd"
       /\ law.dists = lctor.dists
       /\ law.dim = Len(lctor.dists)
       /\ law.dtype = (IF \A i \in 1..Len(lctor.dists) : IsDiscrete(lctor.dists[i])
                       THEN "int64" ELSE "float64")
  /\ Built("IID") =>
       /\ law.kind = "IndepProd"
       /\ Len(law.dists) = lctor.k
       /\ \A i \in 1..lctor.k : law.dists[i] = lctor.dists[1]
       /\ law.dim = lctor.k
       /\ law.dtype = (IF IsDiscrete(lctor.dists[1]) THEN "int64" ELSE "float64")
\* a product of a discrete and a continuous law has been built
C20_Witness ==
  /\ Built("IndepProd")
  /\ Len(lctor.dists) = 2
  /\ IsDiscrete(lctor.dists[1])
  /\ ~IsDiscrete(lctor.dists[2])
  /\ law.dim = 2
  /\ law.dtype = "float64"

\* Mixture(pk, *components) has been called with as many components as pk
\* has weights
MixtureAsked ==
  /\ mpc # "start"
  /\ Len(mctor.components) = LastAxis(atleast_1d(mctor.pk))
\* the weights of a (k,) pk as the p of a Categorical
PkAsP(pk) == Nd1("float64", [j \in 1..Len(pk.rows[1]) |-> Fl(pk.rows[1][j])])
\* the component laws of a Mixture
MixLaws(m) == [i \in 1..Len(m.components) |-> ComponentLaw(m.components[i])]

\* C21: Mixture.rvs(size) draws the component indices with that size, then
\* samples every component once for the full batch of that size, and
\* returns for entry e the draw of the component whose index was chosen
\* for entry e.
C21_MixtureRvsPropagatesSize ==
  MixtureAsked =>
    /\ mpc = "ready"
    /\ mix.pk.ndim = 1 =>
         \A n \in 1..MaxN : \A rng \in Streams :
           LET k == Categorical_rvs(Categorical(PkAsP(mix.pk)), Size(n), rng)
               xk == DrawEach(MixLaws(mix), Size(n), k.rng)
               r == Mixture_rvs(mix, Size(n), rng)
           IN  /\ r.err = NoErr
               /\ Len0(k.val) = n
               /\ Len(xk) = Len(mix.components)
               /\ \A i \in 1..Len(xk) : Len0(xk[i].val) = n
               /\ Len0(r.val) = n
               /\ \A e \in 1..n :
                    Flat(r.val)[e] = Flat(xk[Flat(k.val)[e].q[1] + 1].val)[e]

\* rvs(size) has returned on a law of the given class
RvsReturnedOn(kind) ==
  /\ lpc = "ready"
  /\ lcall.op = "rvs"
  /\ law.kind = kind
  /\ lres.err = NoErr
\* the draws of the components of an IndepProd, each with the size of the
\* call and reading the generator where the one before left it
ChildDraws == DrawEach(law.dists, lcall.size, lcall.rng)

\* the part of C21 that holds: LinearD, MixMissing and IndepProd draw each
\* child once, with the size of the call, and the result is made of those
\* draws entry by entry
C21_OtherCombinators ==
  /\ RvsReturnedOn("LinearD") =>
       LET c == Law_rvs(law.base_dist, lcall.size, lcall.rng)
       IN  /\ c.err = NoErr
           /\ ShapeOf(lres.val) = ShapeOf(c.val)
           /\ lres.val = LinearD_f(law, c.val)
  /\ RvsReturnedOn("MixMissing") =>
       LET c == Law_rvs(law.base_dist, lcall.size, lcall.rng)
       IN  /\ c.err = NoErr
           /\ ShapeOf(lres.val) = ShapeOf(c.val)
           /\ \A i \in 1..Len0(c.val) :
                lres.val.rows[i] \in {c.val.rows[i], [j \in 1..Len(c.val.rows[i]) |-> FNaN]}
  /\ RvsReturnedOn("IndepProd") =>
       /\ Len(ChildDraws) = Len(law.dists)
       /\ \A i \in 1..Len(law.dists) :
            /\ ChildDraws[i].err = NoErr
            /\ Len0(ChildDraws[i].val) = Len(lres.val.rows)
            /\ \A n \in 1..Len(lres.val.rows) :
                 lres.val.rows[n][i] = ChildDraws[i].val.rows[n][1]

\* |a| of a plain number
FAbsOf(a) == Fl(<<Abs(a.q[1]), a.q[2]>>)
\* logpdf has been called on LinearD(Normal, a, b) with finite points (a
\* scalar or a batch)
LinearDLogpdfOnFinite ==
  /\ LogpdfOn("LinearD")
  /\ law.base_dist.kind = "Normal"
  /\ lcall.arg.ndim <= 1
  /\ lcall.arg.dtype = "float64"
  /\ \A i \in 1..Len0(lcall.arg) : lcall.arg.rows[i][1].t = "fin"
\* base.logpdf((x - b) / a) for entry i of the points
BaseAtInverse(i) ==
  Law_logpdf(law.base_dist,
             Nd0("float64", FDiv(FSub(lcall.arg.rows[i][1], law.b), law.a))).val.rows[1][1]

\* C22: for LinearD(base, a, b) with a # 0, negative a included, finv(f(x))
\* = x at every x, and logpdf(x) = base.logpdf((x - b) / a) - log|a|, a
\* value that is not NaN wherever the base log-density is finite.
C22_LinearDLogpdf ==
  /\ (lpc = "ready" /\ law.kind = "LinearD") =>
       \A v \in FloatVals :
         LinearD_finv(law, LinearD_f(law, Nd0("float64", v))) = Nd0("float64", v)
  /\ LinearDLogpdfOnFinite =>
       /\ lres.err = NoErr
       /\ \A i \in 1..Len0(lcall.arg) :
            /\ lres.val.rows[i][1] = FAdd(BaseAtInverse(i), FNeg(FLn(FAbsOf(law.a))))
            /\ ~FIsNaN(lres.val.rows[i][1])

\* the part of C22 that holds: the round trip for every a # 0, and the
\* density for a > 0
C22_PositiveSlopePart ==
  /\ (lpc = "ready" /\ law.kind = "LinearD") =>
       \A v \in FloatVals :
         LinearD_finv(law, LinearD_f(law, Nd0("float64", v))) = Nd0("float64", v)
  /\ (LinearDLogpdfOnFinite /\ RLt(Zero, law.a.q)) =>
       /\ lres.err = NoErr
       /\ \A i \in 1..Len0(lcall.arg) :
            /\ lres.val.rows[i][1] = FAdd(BaseAtInverse(i), FNeg(FLn(FAbsOf(law.a))))
            /\ ~FIsNaN(lres.val.rows[i][1])

\* the constructor has returned an instance
SdBuilt == spc \in {"ready", "rvs"}
\* the laws of the instance are the pairs given, by ascending key
AscendingItems ==
  /\ Len(sd.laws) = Len(sctor.items)
  /\ {sd.laws[i] : i \in 1..Len(sd.laws)} = {sctor.items[i] : i \in 1..Len(sctor.items)}
  /\ \A i, j \in 1..Len(sd.laws) :
       i < j => KeyRank(sd.laws[i][1]) < KeyRank(sd.laws[j][1])
\* entry i of dtype names field i of laws with the dtype of its law, and
\* with its dim when that is not 1
TypedAsLaw(i) ==
  LET l == sd.laws[i][2]
      d == IF "dim" \in DOMAIN l THEN l.dim ELSE 1
      t == IF "dtype" \in DOMAIN l THEN l.dtype
           ELSE IF l.kind \in DiscreteKinds THEN "int64" ELSE "float64"
  IN  sd.dtype[i] = IF d = 1 THEN <<sd.laws[i][1], t>> ELSE <<sd.laws[i][1], t, d>>

\* C23: the order of a StructDist is fixed at construction: the insertion
\* order of an OrderedDict, the ascending keys of a plain dict; any other
\* argument raises ValueError.  Whatever calls of rvs, logpdf and ppf
\* follow, dtype names the keys of laws in the same order, each with its
\* law's dtype and dim, and construction draws nothing and calls no Cond.
C23_OrderFixedAtConstruction ==
  /\ spc # "start" =>
       IF sctor.type \in {"OrderedDict", "dict"}
       THEN spc # "failed"
       ELSE spc = "failed" /\ sres.err = RecdistErr
  /\ SdBuilt =>
       /\ sctor.type = "OrderedDict" => sd.laws = sctor.items
       /\ sctor.type = "dict" => AscendingItems
       /\ Len(sd.dtype) = Len(sd.laws)
       /\ \A i \in 1..Len(sd.laws) : TypedAsLaw(i)
  /\ (spc = "ready" /\ scall = NoSdCall) => trace = <<>> /\ srng = <<>>
\* a plain dict given with tau before mu, one of them of dim 2, on which a
\* call has been made
C23_Witness ==
  /\ spc = "ready"
  /\ sctor.type = "dict"
  /\ [i \in 1..Len(sctor.items) |-> sctor.items[i][1]] = <<"tau", "mu">>
  /\ SdKeys = <<"mu", "tau">>
  /\ \E i \in 1..Len(sd.dtype) : Len(sd.dtype[i]) = 3
  /\ scall.op \in {"rvs", "logpdf", "ppf"}

====
